---- MODULE Spec2Model ----
(***************************************************************************)
(* AI-to-Webflow converter: the tree compiler (lib/html-parser.ts), the    *)
(* chunker (splitIntoChunks), the style compiler (lib/css-parser.ts), the  *)
(* clipboard transport (lib/clipboard.ts, lib/clipboard-custom.ts) and the *)
(* status handling of the converter page.                                  *)
(* Strings the code scans (CSS text, attribute values, text data) are      *)
(* sequences of tokens; each token is a run of characters that the         *)
(* patterns of the code never split.                                       *)
(***************************************************************************)
EXTENDS Integers, Sequences, FiniteSets, TLC

VARIABLES
    \* ---- tree compiler: compileHTMLToNodes ----
    dom,               \* the parsed document: nodes in document order
    classToIdMap,      \* class name -> style id, as handed to the compiler
    pc,                \* position of the compile / chunk pipeline
    contentElements,   \* elements still to be processed as roots
    stack,             \* the active processElement calls, innermost last
    allNodes,          \* the flat output list
    rootNodeIds,       \* ids of the top-level nodes
    uuid,              \* number of identifiers handed out by uuidv4
    \* ---- chunker: splitIntoChunks ----
    maxNodesPerChunk,
    rootPos,           \* index of the next root of the for-loop
    currentChunkNodes,
    currentChunkRoots,
    chunkIndex,
    chunks,
    \* ---- style compiler: parseCSSToWebflow / parseCSSWithMediaQueries ----
    cssItems,          \* the style sheet as written: its blocks in textual order
    cssString,         \* the text of the style sheet
    classNames,        \* the requested class names
    cssPc,             \* position of the style compiler
    cssMode,           \* which entry point runs
    cssVariables,      \* custom properties found in :root
    cssRules,          \* rule records of parseCSSRules
    mediaQueries,      \* breakpoint -> rule records
    classIdx,          \* index of the next requested class
    styles,            \* the style records produced so far
    \* ---- clipboard transport: copyToWebflow ----
    navigatorClipboard, \* whether navigator.clipboard.write exists
    clipboardItem,     \* whether the ClipboardItem constructor exists
    webflowData,       \* the argument of copyToWebflow
    copyPc,            \* position of copyToWebflow
    jsonString,        \* JSON.stringify(webflowData)
    clipboard,         \* the system clipboard: MIME type -> content
    copyResult,        \* the CopyResult the promise resolves to
    \* ---- clipboard transport: copyToWebflowSmart / copyToWebflowFallback ----
    smartPc,           \* position of copyToWebflowSmart
    smartResult,       \* the CopyResult copyToWebflowSmart resolves to
    fallbackResult,    \* the CopyResult of copyToWebflowFallback
    textareas,         \* temporary textareas attached to document.body
    \* ---- clipboard transport: copyToWebflowCustom ----
    customCalls,       \* number of calls of copyToWebflowCustom so far
    customJson,        \* call -> the jsonString of the call
    promises,          \* call -> the state of the promise it returned
    copyListeners,     \* calls whose copyHandler is attached to document
    tempInputs,        \* calls whose tempInput is a child of document.body
    removeAttempts,    \* call -> how often removeChild(tempInput) was called
    uncaught,          \* exceptions thrown out of a promise executor
    \* ---- converter page: ConverterPage ----
    copyStatus,        \* "idle", "copying", "success" or "error"
    copyMessage,
    hasWebflowData,    \* whether the webflowData state is set (summary is shown)
    chunkCount,        \* chunks.length
    handlerRuns,       \* runs of handleConvertAndCopy / handleRequestPermission so far
    suspended,         \* the runs that wait at their await
    timers,            \* the pending setTimeout callbacks, in the order armed
    statusRun          \* the run whose handler set copyStatus and copyMessage last

treeVars  == <<dom, classToIdMap, pc, contentElements, stack, allNodes, rootNodeIds, uuid>>
chunkVars == <<maxNodesPerChunk, rootPos, currentChunkNodes, currentChunkRoots, chunkIndex, chunks>>
cssVars == <<cssItems, cssString, classNames, cssPc, cssMode, cssVariables, cssRules,
             mediaQueries, classIdx, styles>>
clipVars == <<navigatorClipboard, clipboardItem, webflowData, copyPc, jsonString, clipboard,
              copyResult>>
smartVars == <<smartPc, smartResult, fallbackResult, textareas>>
customVars == <<customCalls, customJson, promises, copyListeners, tempInputs, removeAttempts,
                uncaught>>
pageVars == <<copyStatus, copyMessage, hasWebflowData, chunkCount, handlerRuns, suspended, timers,
              statusRun>>
browserVars == <<smartVars, customVars, pageVars>>
vars == <<treeVars, chunkVars, cssVars, clipVars, browserVars>>

----------------------------------------------------------------------------
(* Bounds *)

MaxDomNodes == 3       \* nodes of the parsed document
MaxTypeNodes == 2      \* nodes of the documents that hold every element type
MaxChunkLimit == 3     \* largest maxNodesPerChunk tried (0 .. MaxChunkLimit)
MaxCssItems == 2       \* blocks of the style sheet
MaxClassNames == 2     \* requested class names
MaxCalls == 2          \* calls of copyToWebflowCustom
MaxRuns == 3           \* handler runs of the converter page

----------------------------------------------------------------------------
(* Generic helpers on sequences *)

Range(s) == { s[i] : i \in 1..Len(s) }

Last(s) == s[Len(s)]

IsWs(t) == t \in {" ", "\n"}

RECURSIVE TrimStart(_)
TrimStart(s) ==
    IF s # <<>> /\ IsWs(Head(s)) THEN TrimStart(Tail(s)) ELSE s

RECURSIVE TrimEnd(_)
TrimEnd(s) ==
    IF s # <<>> /\ IsWs(Last(s)) THEN TrimEnd(SubSeq(s, 1, Len(s) - 1)) ELSE s

\* String.prototype.trim
Trim(s) == TrimEnd(TrimStart(s))

\* Map.prototype.set(key, value)
MapSet(map, key, value) ==
    [k \in DOMAIN map \cup {key} |-> IF k = key THEN value ELSE map[k]]

----------------------------------------------------------------------------
(* The parsed document (htmlparser2.parseDocument).  A document is the     *)
(* sequence of its nodes in document order; parent = 0 is the document.    *)

ElementT(name, attribs) ==
    [kind |-> "element", name |-> name, attribs |-> attribs, data |-> <<>>]

TextT(data) ==
    [kind |-> "text", name |-> "", attribs |-> <<>>, data |-> data]

\* elements the parser never gives children
voidElements == {"input", "img", "br", "hr", "meta", "link", "base"}

\* elements whose content the parser keeps as raw text
rawTextElements == {"script", "style", "title", "textarea"}

\* opening tag `child` closes an open `parent` (openImpliesClose of the parser)
openImpliesClose(child, parent) ==
    \/ parent = "p" /\ child \in {"p", "div", "header", "nav", "section", "footer",
                                  "main", "article", "aside", "form", "h1", "ul"}
    \/ child = "body" /\ parent \in {"head", "link", "script"}
    \/ child \in {"input", "select", "textarea", "button"} /\ parent \in {"select", "button"}

HasAttr(node, a) == \E i \in 1..Len(node.attribs) : node.attribs[i][1] = a

Attr(node, a) ==
    LET i == CHOOSE i \in 1..Len(node.attribs) :
                 /\ node.attribs[i][1] = a
                 /\ \A j \in 1..(i - 1) : node.attribs[j][1] # a
    IN node.attribs[i][2]

\* node.children: the nodes whose parent is p, in document order
RECURSIVE ChildrenFrom(_, _, _)
ChildrenFrom(d, p, from) ==
    IF from > Len(d) THEN <<>>
    ELSE IF d[from].parent = p THEN <<from>> \o ChildrenFrom(d, p, from + 1)
    ELSE ChildrenFrom(d, p, from + 1)

Children(d, p) == ChildrenFrom(d, p, 1)

RECURSIVE AncestorsOrSelf(_, _)
AncestorsOrSelf(d, i) ==
    IF i = 0 THEN {0} ELSE {i} \cup AncestorsOrSelf(d, d[i].parent)

\* where the parser can attach the next node of kind t to document d
CanAttach(d, t, p) ==
    /\ p \in (IF d = <<>> THEN {0} ELSE AncestorsOrSelf(d, Len(d)))
    /\ p # 0 =>
        /\ d[p].kind = "element"
        /\ d[p].name \notin voidElements
        /\ d[p].name \in rawTextElements => t.kind = "text"
        /\ t.kind = "element" => ~openImpliesClose(t.name, d[p].name)
    \* adjacent text is one text node
    /\ t.kind = "text" => LET c == Children(d, p) IN c = <<>> \/ d[Last(c)].kind # "text"

RECURSIVE DomsOfLen(_, _)
DomsOfLen(T, n) ==
    IF n = 0 THEN {<<>>}
    ELSE UNION { { Append(d, [kind |-> t.kind, name |-> t.name, attribs |-> t.attribs,
                              data |-> t.data, parent |-> p]) :
                     <<t, p>> \in { tp \in T \X (0..Len(d)) : CanAttach(d, tp[1], tp[2]) } } :
                 d \in DomsOfLen(T, n - 1) }

Doms(T, n) == UNION { DomsOfLen(T, k) : k \in 0..n }

----------------------------------------------------------------------------
(* Tree compiler *)

TAG_TO_TYPE_MAP ==
    [div |-> "Block", section |-> "Section", article |-> "Block", aside |-> "Block",
     nav |-> "Block", header |-> "Block", footer |-> "Block", main |-> "Block",
     h1 |-> "Heading", h2 |-> "Heading", h3 |-> "Heading", h4 |-> "Heading",
     h5 |-> "Heading", h6 |-> "Heading",
     p |-> "Paragraph", span |-> "Block", strong |-> "Block", em |-> "Block",
     b |-> "Block", i |-> "Block",
     a |-> "Link", img |-> "Image",
     ul |-> "List", ol |-> "List", li |-> "ListItem",
     form |-> "FormForm", input |-> "FormTextInput", button |-> "Block",
     textarea |-> "FormTextarea", select |-> "FormSelect", label |-> "FormBlockLabel",
     container |-> "Container"]

DOCUMENT_STRUCTURE_TAGS ==
    {"html", "head", "body", "title", "meta", "link", "script", "style", "base"}

\* String.prototype.toLowerCase on the values the model uses
toLowerCase(s) ==
    [k \in 1..Len(s) |->
        CASE s[k] = "SUBMIT" -> "submit"
          [] s[k] = "Radio" -> "radio"
          [] s[k] = "Button" -> "button"
          [] s[k] = "CHECKBOX" -> "checkbox"
          [] OTHER -> s[k]]

\* getWebflowType without the "button" alternative of the first test
getWebflowType_SubmitOnly(tag, element, insideForm) ==
    IF tag = "input" THEN
        LET inputType == IF HasAttr(element, "type") /\ Attr(element, "type") # <<>>
                         THEN toLowerCase(Attr(element, "type")) ELSE <<"text">>
        IN  IF inputType = <<"submit">>
            THEN (IF insideForm THEN "FormButton" ELSE "Block")
            ELSE IF inputType = <<"radio">>
            THEN (IF insideForm THEN "FormRadioInput" ELSE "Block")
            ELSE IF inputType = <<"checkbox">>
            THEN (IF insideForm THEN "FormCheckboxInput" ELSE "Block")
            ELSE (IF insideForm THEN "FormTextInput" ELSE "Block")
    ELSE IF tag = "textarea" THEN (IF insideForm THEN "FormTextarea" ELSE "Block")
    ELSE IF tag = "select" THEN (IF insideForm THEN "FormSelect" ELSE "Block")
    ELSE IF tag = "label" THEN (IF insideForm THEN "FormBlockLabel" ELSE "Block")
    ELSE IF tag \in DOMAIN TAG_TO_TYPE_MAP THEN TAG_TO_TYPE_MAP[tag]
    ELSE "DOM"

getWebflowType(tag, element, insideForm) ==
    IF tag = "input" THEN
        LET inputType == IF HasAttr(element, "type") /\ Attr(element, "type") # <<>>
                         THEN toLowerCase(Attr(element, "type")) ELSE <<"text">>
        IN  IF inputType = <<"submit">> \/ inputType = <<"button">>
            THEN (IF insideForm THEN "FormButton" ELSE "Block")
            ELSE IF inputType = <<"radio">>
            THEN (IF insideForm THEN "FormRadioInput" ELSE "Block")
            ELSE IF inputType = <<"checkbox">>
            THEN (IF insideForm THEN "FormCheckboxInput" ELSE "Block")
            ELSE (IF insideForm THEN "FormTextInput" ELSE "Block")
    ELSE IF tag = "textarea" THEN (IF insideForm THEN "FormTextarea" ELSE "Block")
    ELSE IF tag = "select" THEN (IF insideForm THEN "FormSelect" ELSE "Block")
    ELSE IF tag = "label" THEN (IF insideForm THEN "FormBlockLabel" ELSE "Block")
    ELSE IF tag \in DOMAIN TAG_TO_TYPE_MAP THEN TAG_TO_TYPE_MAP[tag]
    ELSE "DOM"

\* classAttr.split(/\s+/).map(trim).filter(nonempty): the words of the attribute
extractClassNames(element) ==
    IF ~HasAttr(element, "class") \/ Attr(element, "class") = <<>> THEN <<>>
    ELSE SelectSeq(Attr(element, "class"), LAMBDA c : ~IsWs(c))

\* ClassUUIDs giving no id at all when one class is missing from the map
ClassUUIDs_AllOrNothing(element, map) ==
    LET names == extractClassNames(element)
    IN  IF \E k \in 1..Len(names) : names[k] \notin DOMAIN map THEN <<>>
        ELSE [k \in 1..Len(names) |-> map[names[k]]]

\* classNames.map(classToIdMap.get).filter(defined)
ClassUUIDs(element, map) ==
    LET names == extractClassNames(element)
        known == SelectSeq(names, LAMBDA c : c \in DOMAIN map)
    IN  [k \in 1..Len(known) |-> map[known[k]]]

\* traverse() of extractContentElements, on document node i
RECURSIVE traverse(_, _)
RECURSIVE traverseAll(_, _)
traverse(d, i) ==
    IF d[i].kind # "element" THEN <<>>
    ELSE IF d[i].name = "body"
    THEN SelectSeq(Children(d, i),
                   LAMBDA c : d[c].kind = "element" /\ d[c].name \notin {"script", "style"})
    ELSE IF d[i].name \in DOCUMENT_STRUCTURE_TAGS
    THEN traverseAll(d, Children(d, i))
    ELSE <<i>>

traverseAll(d, cs) ==
    IF cs = <<>> THEN <<>> ELSE traverse(d, Head(cs)) \o traverseAll(d, Tail(cs))

extractContentElements(d) == traverseAll(d, Children(d, 0))

\* an object without properties
EmptyObject == [k \in {} |-> <<>>]

\* element.attribs[name] || fallback
AttrOr(element, name, fallback) ==
    IF HasAttr(element, name) /\ Attr(element, name) # <<>> THEN Attr(element, name)
    ELSE fallback

\* parseInt on the values the model uses; 0 stands for NaN as well
ParseInt(value) ==
    CASE value = <<"10">> -> 10
      [] OTHER -> 0

\* parseInt(element.attribs["maxlength"]) || fallback
MaxLengthOr(element, fallback) ==
    LET n == IF HasAttr(element, "maxlength") THEN ParseInt(Attr(element, "maxlength")) ELSE 0
    IN  IF n # 0 THEN n ELSE fallback

\* name and data-name of a form control
NameAttributes(element) ==
    [name |-> AttrOr(element, "name", <<>>)]
    @@ ("data-name" :> AttrOr(element, "data-name", AttrOr(element, "name", <<>>)))

extractAttributes(element, tag) ==
    [id |-> AttrOr(element, "id", <<>>)] @@
    CASE tag = "img" ->
            [width |-> AttrOr(element, "width", <<"auto">>),
             height |-> AttrOr(element, "height", <<"auto">>),
             alt |-> AttrOr(element, "alt", <<>>),
             src |-> AttrOr(element, "src", <<>>),
             loading |-> IF HasAttr(element, "loading") /\ Attr(element, "loading") = <<"eager">>
                         THEN <<"eager">> ELSE <<"lazy">>]
      [] tag = "form" ->
            NameAttributes(element) @@
            [action |-> AttrOr(element, "action", <<>>),
             method |-> AttrOr(element, "method", <<"get">>),
             redirect |-> AttrOr(element, "redirect", <<>>)] @@
            ("data-redirect" :> AttrOr(element, "data-redirect", <<>>))
      [] tag = "input" ->
            LET inputType == AttrOr(element, "type", <<"text">>)
            IN  [type |-> inputType] @@ NameAttributes(element) @@
                [placeholder |-> AttrOr(element, "placeholder", <<>>),
                 required |-> HasAttr(element, "required"),
                 disabled |-> HasAttr(element, "disabled"),
                 autofocus |-> HasAttr(element, "autofocus")] @@
                (IF inputType = <<"submit">> \/ inputType = <<"button">>
                 THEN [value |-> AttrOr(element, "value", <<"Submit">>)] @@
                      ("data-wait" :> AttrOr(element, "data-wait", <<"Please wait...">>))
                 ELSE IF inputType = <<"radio">> \/ inputType = <<"checkbox">>
                 THEN [value |-> AttrOr(element, "value", <<>>),
                       checked |-> HasAttr(element, "checked")]
                 ELSE [maxlength |-> MaxLengthOr(element, 256)])
      [] tag = "textarea" ->
            NameAttributes(element) @@
            [placeholder |-> AttrOr(element, "placeholder", <<>>),
             required |-> HasAttr(element, "required"),
             autofocus |-> HasAttr(element, "autofocus"),
             maxlength |-> MaxLengthOr(element, 5000)]
      [] tag = "select" ->
            NameAttributes(element) @@
            [required |-> HasAttr(element, "required"),
             multiple |-> HasAttr(element, "multiple")]
      [] tag = "button" -> [type |-> AttrOr(element, "type", <<"button">>)]
      [] tag = "label" -> ("for" :> AttrOr(element, "for", <<>>))
      [] OTHER -> EmptyObject

\* String.prototype.includes("button") on a class attribute
IncludesButton(value) == \E k \in 1..Len(value) : value[k] \in {"button", "button-lg"}

\* String.prototype.startsWith("http") on an href
StartsWithHttp(value) == value # <<>> /\ Head(value) \in {"http://x.io", "https://x.io"}

getTypeSpecificData(element, tag, type) ==
    CASE type = "Link" ->
            [button |-> HasAttr(element, "class") /\ IncludesButton(Attr(element, "class")),
             block |-> <<>>,
             link |-> [mode |-> IF HasAttr(element, "href") /\ StartsWithHttp(Attr(element, "href"))
                                THEN "external" ELSE "internal",
                       url |-> AttrOr(element, "href", <<"#">>)],
             eventIds |-> <<>>]
      [] type = "Image" ->
            [img |-> [id |-> <<>>], srcsetDisabled |-> FALSE, sizes |-> <<>>]
      [] type = "FormForm" ->
            [form |-> [type |-> "form",
                       name |-> AttrOr(element, "name", AttrOr(element, "id", <<"Form">>))],
             Source |-> [tag |-> "Default form", val |-> EmptyObject]]
      [] type = "FormButton" ->
            [style |-> [base |-> [main |-> [noPseudo |-> [justifySelf |-> "start"]]]],
             form |-> [type |-> "button"],
             eventIds |-> <<>>]
      [] type = "FormTextInput" ->
            [form |-> [type |-> "input",
                       name |-> AttrOr(element, "name", AttrOr(element, "id", <<"Field">>)),
                       passwordPage |-> FALSE]]
      [] type = "FormTextarea" ->
            [form |-> [type |-> "textarea",
                       name |-> AttrOr(element, "name", AttrOr(element, "id", <<"Message">>))]]
      [] type = "FormSelect" ->
            [form |-> [type |-> "select",
                       opts |-> <<[v |-> "", t |-> "Select one..."],
                                  [v |-> "Option 1", t |-> "Option 1"]>>,
                       name |-> AttrOr(element, "name", AttrOr(element, "id", <<"Select">>))]]
      [] type = "FormBlockLabel" ->
            [form |-> [type |-> "label", passwordPage |-> FALSE]]
      [] type = "FormRadioInput" ->
            [form |-> [type |-> "radio-input", name |-> AttrOr(element, "name", <<"Radio">>)],
             inputType |-> "custom"]
      [] type = "FormCheckboxInput" ->
            [form |-> [type |-> "checkbox-input",
                       name |-> AttrOr(element, "name", <<"Checkbox">>)],
             inputType |-> "custom"]
      [] OTHER -> EmptyObject

\* htmlAttributes with class and id kept
htmlAttributes_KeepAll(element) ==
    [k \in 1..Len(element.attribs) |->
        [name |-> element.attribs[k][1],
         value |-> IF element.attribs[k][2] = <<>> THEN <<" ">> ELSE element.attribs[k][2]]]

\* the attribute list of a custom element: Object.entries(element.attribs)
\* without class and id, an empty value replaced by a space
htmlAttributes(element) ==
    LET kept == SelectSeq(element.attribs, LAMBDA a : a[1] # "class" /\ a[1] # "id")
    IN  [k \in 1..Len(kept) |->
            [name |-> kept[k][1],
             value |-> IF kept[k][2] = <<>> THEN <<" ">> ELSE kept[k][2]]]

formTypes ==
    {"FormWrapper", "FormForm", "FormButton", "FormTextInput", "FormTextarea",
     "FormSelect", "FormBlockLabel", "FormInlineLabel", "FormRadioWrapper",
     "FormRadioInput", "FormCheckboxWrapper", "FormCheckboxInput",
     "FormSuccessMessage", "FormErrorMessage"}

\* dataObject with the tag left out for Block, Section and Container
dataObject_TextOnly(element, tag, type) ==
    IF type = "DOM"
    THEN [editable |-> TRUE, tag |-> tag, attributes |-> htmlAttributes(element)]
    ELSE [visibility |-> [conditions |-> <<>>],
          search |-> [exclude |-> (type = "FormWrapper")],
          displayName |-> <<>>,
          devlink |-> [runtimeProps |-> EmptyObject, slot |-> <<>>]]
         @@ getTypeSpecificData(element, tag, type)
         @@ (IF type \in {"Block", "Section", "Container"} THEN [text |-> FALSE]
             ELSE IF type \in {"Heading"} THEN [tag |-> tag]
             ELSE EmptyObject)
         @@ [attr |-> extractAttributes(element, tag), xattr |-> <<>>]

\* the data payload of an element record
dataObject(element, tag, type) ==
    IF type = "DOM"
    THEN [editable |-> TRUE, tag |-> tag, attributes |-> htmlAttributes(element)]
    ELSE [visibility |-> [conditions |-> <<>>],
          search |-> [exclude |-> (type = "FormWrapper")],
          displayName |-> <<>>,
          devlink |-> [runtimeProps |-> EmptyObject, slot |-> <<>>]]
         @@ getTypeSpecificData(element, tag, type)
         @@ (IF type \in {"Block", "Section", "Container"} THEN [text |-> FALSE, tag |-> tag]
             ELSE IF type \in {"Heading"} THEN [tag |-> tag]
             ELSE EmptyObject)
         @@ [attr |-> extractAttributes(element, tag), xattr |-> <<>>]

\* the element record processElement pushes, children still empty
WebflowElementNode(id, element, insideForm, map) ==
    LET type == getWebflowType(element.name, element, insideForm)
    IN  [_id |-> id, text |-> FALSE, v |-> <<>>,
         classes |-> ClassUUIDs(element, map),
         type |-> type,
         tag |-> IF type = "DOM" THEN "div" ELSE element.name,
         data |-> dataObject(element, element.name, type),
         children |-> <<>>]

\* WebflowTextNode without the text in v
WebflowTextNode_NoValue(id, text) ==
    [_id |-> id, text |-> TRUE, v |-> <<>>, classes |-> <<>>, type |-> "", tag |-> "",
     data |-> EmptyObject, children |-> <<>>]

\* the record createTextNode pushes
WebflowTextNode(id, text) ==
    [_id |-> id, text |-> TRUE, v |-> text, classes |-> <<>>, type |-> "", tag |-> "",
     data |-> EmptyObject, children |-> <<>>]

\* uuidv4(): the next identifier never handed out before
uuidv4(n) == n + 1

\* EnterElement with the form context taken from the element's own tag only
EnterElement_FormChildrenOnly(el, insideForm) ==
    LET id == uuidv4(uuid)
    IN  /\ uuid' = id
        /\ allNodes' = Append(allNodes, WebflowElementNode(id, dom[el], insideForm, classToIdMap))
        /\ stack' = Append(stack, [el |-> el, id |-> id, node |-> Len(allNodes) + 1,
                                   todo |-> Children(dom, el), childIds |-> <<>>,
                                   childrenInsideForm |-> (dom[el].name = "form")])

\* processElement up to the loop over the children: a fresh id, the record
\* pushed onto allNodes, and the activation that will visit the children
EnterElement(el, insideForm) ==
    LET id == uuidv4(uuid)
    IN  /\ uuid' = id
        /\ allNodes' = Append(allNodes, WebflowElementNode(id, dom[el], insideForm, classToIdMap))
        /\ stack' = Append(stack, [el |-> el, id |-> id, node |-> Len(allNodes) + 1,
                                   todo |-> Children(dom, el), childIds |-> <<>>,
                                   childrenInsideForm |-> (dom[el].name = "form" \/ insideForm)])

\* classAttr.split(/\s+/): the words, with an empty word where the value
\* begins or ends with white space
SplitOnWhitespace(value) ==
    (IF value # <<>> /\ IsWs(Head(value)) THEN <<"">> ELSE <<>>)
    \o SelectSeq(value, LAMBDA t : ~IsWs(t))
    \o (IF value # <<>> /\ IsWs(Last(value)) THEN <<"">> ELSE <<>>)

\* Set.prototype.add for each word: insertion order, no duplicates
RECURSIVE AddAll(_, _)
AddAll(set, words) ==
    IF words = <<>> THEN set
    ELSE AddAll(IF Head(words) \in Range(set) THEN set ELSE Append(set, Head(words)),
                Tail(words))

\* extractClasses over the elements at the top level of the document only
RECURSIVE extractClasses_TopLevel(_, _, _)
extractClasses_TopLevel(d, i, set) ==
    IF i > Len(d) THEN set
    ELSE IF d[i].kind = "element" /\ d[i].parent = 0
            /\ HasAttr(d[i], "class") /\ Attr(d[i], "class") # <<>>
    THEN extractClasses_TopLevel(d, i + 1, AddAll(set, SplitOnWhitespace(Attr(d[i], "class"))))
    ELSE extractClasses_TopLevel(d, i + 1, set)

\* extractClasses over every element of the document, in document order,
\* from node i on
RECURSIVE extractClasses(_, _, _)
extractClasses(d, i, set) ==
    IF i > Len(d) THEN set
    ELSE IF d[i].kind = "element" /\ HasAttr(d[i], "class") /\ Attr(d[i], "class") # <<>>
    THEN extractClasses(d, i + 1, AddAll(set, SplitOnWhitespace(Attr(d[i], "class"))))
    ELSE extractClasses(d, i + 1, set)

\* classToIdMap.set(className, uuidv4()) for each non-empty name of the set
RECURSIVE AssignIds(_, _, _)
AssignIds(names, map, n) ==
    IF names = <<>> THEN [map |-> map, uuid |-> n]
    ELSE IF Head(names) # ""
    THEN AssignIds(Tail(names), MapSet(map, Head(names), uuidv4(n)), uuidv4(n))
    ELSE AssignIds(Tail(names), map, n)

\* compileHTMLWithStyles up to its call of compileHTMLToNodes
compileHTMLWithStyles ==
    /\ pc = "html"
    /\ LET classNamesOfDocument == extractClasses(dom, 1, <<>>)
           assigned == AssignIds(classNamesOfDocument, EmptyObject, uuid)
       IN  /\ classToIdMap' = assigned.map
           /\ uuid' = assigned.uuid
    /\ pc' = "parsed"
    /\ UNCHANGED <<dom, contentElements, stack, allNodes, rootNodeIds, chunkVars, cssVars, clipVars, browserVars>>

\* compileHTMLToNodes: parse, then collect the content elements
CompileStart ==
    /\ pc = "parsed"
    /\ contentElements' = extractContentElements(dom)
    /\ pc' = "compiling"
    /\ UNCHANGED <<dom, classToIdMap, stack, allNodes, rootNodeIds, uuid, chunkVars, cssVars, clipVars, browserVars>>

\* for (const element of contentElements) processElement(element, ...)
ProcessRoot ==
    /\ pc = "compiling" /\ stack = <<>> /\ contentElements # <<>>
    /\ EnterElement(Head(contentElements), FALSE)
    /\ contentElements' = Tail(contentElements)
    /\ UNCHANGED <<dom, classToIdMap, pc, rootNodeIds, chunkVars, cssVars, clipVars, browserVars>>

\* child instanceof Element: recurse
ProcessChildElement ==
    /\ pc = "compiling" /\ stack # <<>>
    /\ LET top == Last(stack)
       IN  /\ top.todo # <<>>
           /\ dom[Head(top.todo)].kind = "element"
           /\ EnterElement(Head(top.todo), top.childrenInsideForm)
    /\ UNCHANGED <<dom, classToIdMap, pc, contentElements, rootNodeIds, chunkVars, cssVars, clipVars, browserVars>>

\* ProcessChildText on child.data as it is, without trim()
ProcessChildText_NoTrim ==
    /\ pc = "compiling" /\ stack # <<>>
    /\ LET top == Last(stack)
           n == Len(stack)
       IN  /\ top.todo # <<>>
           /\ dom[Head(top.todo)].kind = "text"
           /\ LET textContent == dom[Head(top.todo)].data
              IN  IF Len(textContent) > 0
                  THEN LET textNodeId == uuidv4(uuid)
                       IN  /\ uuid' = textNodeId
                           /\ allNodes' = Append(allNodes, WebflowTextNode(textNodeId, textContent))
                           /\ stack' = [stack EXCEPT ![n].todo = Tail(@),
                                                     ![n].childIds = Append(@, textNodeId)]
                  ELSE /\ stack' = [stack EXCEPT ![n].todo = Tail(@)]
                       /\ UNCHANGED <<uuid, allNodes>>
    /\ UNCHANGED <<dom, classToIdMap, pc, contentElements, rootNodeIds, chunkVars, cssVars, clipVars, browserVars>>

\* ProcessChildText with the id of the text node pushed onto the children of
\* the parent's record at once
ProcessChildText_PushToParent ==
    /\ pc = "compiling" /\ stack # <<>>
    /\ LET top == Last(stack)
           n == Len(stack)
       IN  /\ top.todo # <<>>
           /\ dom[Head(top.todo)].kind = "text"
           /\ LET textContent == Trim(dom[Head(top.todo)].data)
              IN  IF Len(textContent) > 0
                  THEN LET textNodeId == uuidv4(uuid)
                       IN  /\ uuid' = textNodeId
                           /\ allNodes' =
                                 Append([allNodes EXCEPT ![top.node].children =
                                                            Append(@, textNodeId)],
                                        WebflowTextNode(textNodeId, textContent))
                           /\ stack' = [stack EXCEPT ![n].todo = Tail(@),
                                                     ![n].childIds = Append(@, textNodeId)]
                  ELSE /\ stack' = [stack EXCEPT ![n].todo = Tail(@)]
                       /\ UNCHANGED <<uuid, allNodes>>
    /\ UNCHANGED <<dom, classToIdMap, pc, contentElements, rootNodeIds, chunkVars, cssVars, clipVars, browserVars>>

\* child instanceof Text: trim, and createTextNode when something is left
ProcessChildText ==
    /\ pc = "compiling" /\ stack # <<>>
    /\ LET top == Last(stack)
           n == Len(stack)
       IN  /\ top.todo # <<>>
           /\ dom[Head(top.todo)].kind = "text"
           /\ LET textContent == Trim(dom[Head(top.todo)].data)
              IN  IF Len(textContent) > 0
                  THEN LET textNodeId == uuidv4(uuid)
                       IN  /\ uuid' = textNodeId
                           /\ allNodes' = Append(allNodes, WebflowTextNode(textNodeId, textContent))
                           /\ stack' = [stack EXCEPT ![n].todo = Tail(@),
                                                     ![n].childIds = Append(@, textNodeId)]
                  ELSE /\ stack' = [stack EXCEPT ![n].todo = Tail(@)]
                       /\ UNCHANGED <<uuid, allNodes>>
    /\ UNCHANGED <<dom, classToIdMap, pc, contentElements, rootNodeIds, chunkVars, cssVars, clipVars, browserVars>>

\* ElementReturn with allNodes.push(webflowNode) moved after the loop over
\* the children (the record reaches the flat list in post-order)
ElementReturn_PushAfterChildren ==
    /\ pc = "compiling" /\ stack # <<>>
    /\ LET top == Last(stack)
           n == Len(stack)
       IN  /\ top.todo = <<>>
           /\ allNodes' = SubSeq(allNodes, 1, top.node - 1)
                          \o SubSeq(allNodes, top.node + 1, Len(allNodes))
                          \o <<[allNodes[top.node] EXCEPT !.children = top.childIds]>>
           /\ IF n = 1
              THEN /\ stack' = <<>>
                   /\ rootNodeIds' = Append(rootNodeIds, top.id)
              ELSE /\ stack' = [SubSeq(stack, 1, n - 1) EXCEPT
                                    ![n - 1].todo = Tail(@),
                                    ![n - 1].childIds = Append(@, top.id)]
                   /\ UNCHANGED rootNodeIds
    /\ UNCHANGED <<dom, classToIdMap, pc, contentElements, uuid, chunkVars, cssVars, clipVars, browserVars>>

\* ElementReturn with the returned id recorded as a root at every depth
ElementReturn_RootAtEveryDepth ==
    /\ pc = "compiling" /\ stack # <<>>
    /\ LET top == Last(stack)
           n == Len(stack)
       IN  /\ top.todo = <<>>
           /\ allNodes' = [allNodes EXCEPT ![top.node].children = top.childIds]
           /\ rootNodeIds' = Append(rootNodeIds, top.id)
           /\ IF n = 1
              THEN stack' = <<>>
              ELSE stack' = [SubSeq(stack, 1, n - 1) EXCEPT
                                    ![n - 1].todo = Tail(@),
                                    ![n - 1].childIds = Append(@, top.id)]
    /\ UNCHANGED <<dom, classToIdMap, pc, contentElements, uuid, chunkVars, cssVars, clipVars, browserVars>>

\* ElementReturn with the returned id put in front of the caller's childIds
ElementReturn_PrependChild ==
    /\ pc = "compiling" /\ stack # <<>>
    /\ LET top == Last(stack)
           n == Len(stack)
       IN  /\ top.todo = <<>>
           /\ allNodes' = [allNodes EXCEPT ![top.node].children = top.childIds]
           /\ IF n = 1
              THEN /\ stack' = <<>>
                   /\ rootNodeIds' = Append(rootNodeIds, top.id)
              ELSE /\ stack' = [SubSeq(stack, 1, n - 1) EXCEPT
                                    ![n - 1].todo = Tail(@),
                                    ![n - 1].childIds = <<top.id>> \o @]
                   /\ UNCHANGED rootNodeIds
    /\ UNCHANGED <<dom, classToIdMap, pc, contentElements, uuid, chunkVars, cssVars, clipVars, browserVars>>

\* the loop over the children is over: webflowNode.children = childIds and
\* return nodeId, which the caller pushes onto its childIds or rootNodeIds
ElementReturn ==
    /\ pc = "compiling" /\ stack # <<>>
    /\ LET top == Last(stack)
           n == Len(stack)
       IN  /\ top.todo = <<>>
           /\ allNodes' = [allNodes EXCEPT ![top.node].children = top.childIds]
           /\ IF n = 1
              THEN /\ stack' = <<>>
                   /\ rootNodeIds' = Append(rootNodeIds, top.id)
              ELSE /\ stack' = [SubSeq(stack, 1, n - 1) EXCEPT
                                    ![n - 1].todo = Tail(@),
                                    ![n - 1].childIds = Append(@, top.id)]
                   /\ UNCHANGED rootNodeIds
    /\ UNCHANGED <<dom, classToIdMap, pc, contentElements, uuid, chunkVars, cssVars, clipVars, browserVars>>

\* return { nodes: allNodes, rootNodeIds }
CompileReturn ==
    /\ pc = "compiling" /\ stack = <<>> /\ contentElements = <<>>
    /\ pc' = "compiled"
    /\ UNCHANGED <<dom, classToIdMap, contentElements, stack, allNodes, rootNodeIds, uuid,
                   chunkVars, cssVars, clipVars, browserVars>>

----------------------------------------------------------------------------
(* Chunker: splitIntoChunks(nodes, rootNodeIds, maxNodesPerChunk) *)

\* nodes.find((n) => n._id === nodeId): position of the first match, 0 if none
FindNode(nodes, nodeId) ==
    IF \E k \in 1..Len(nodes) : nodes[k]._id = nodeId
    THEN CHOOSE k \in 1..Len(nodes) :
            /\ nodes[k]._id = nodeId
            /\ \A j \in 1..(k - 1) : nodes[j]._id # nodeId
    ELSE 0

RECURSIVE countNodesInSubtree(_, _)
RECURSIVE countNodesInList(_, _)
countNodesInSubtree(nodes, nodeId) ==
    LET k == FindNode(nodes, nodeId)
    IN  IF k = 0 THEN 0 ELSE 1 + countNodesInList(nodes, nodes[k].children)

countNodesInList(nodes, ids) ==
    IF ids = <<>> THEN 0
    ELSE countNodesInSubtree(nodes, Head(ids)) + countNodesInList(nodes, Tail(ids))

RECURSIVE collectSubtreeNodes(_, _)
collectSubtreeNodes(nodes, nodeId) ==
    LET k == FindNode(nodes, nodeId)
    IN  {nodeId} \cup
        (IF k = 0 THEN {}
         ELSE UNION { collectSubtreeNodes(nodes, c) : c \in Range(nodes[k].children) })

labelMap ==
    [header |-> "Header", nav |-> "Navigation", section |-> "Section", footer |-> "Footer",
     main |-> "Main Content", article |-> "Article", aside |-> "Sidebar", form |-> "Form"]

\* getNodeLabel without the label table
getNodeLabel_NoTable(nodes, nodeId) == "Content"

getNodeLabel(nodes, nodeId) ==
    LET k == FindNode(nodes, nodeId)
    IN  IF k = 0 \/ nodes[k].text THEN "Content"
        ELSE IF nodes[k].tag \in DOMAIN labelMap THEN labelMap[nodes[k].tag]
        ELSE "Content"

\* `Chunk ${chunkIndex}`
ChunkN(n) == "Chunk " \o ToString(n)

\* nodes.filter((n) => currentChunkNodes.has(n._id))
\* ChunkNodes with the selected records in reverse order
ChunkNodes_Reversed(nodes, ids) ==
    LET selected == SelectSeq(nodes, LAMBDA n : n._id \in ids)
    IN  [k \in 1 .. Len(selected) |-> selected[Len(selected) + 1 - k]]

\* nodes.filter((n) => currentChunkNodes.has(n._id))
ChunkNodes(nodes, ids) == SelectSeq(nodes, LAMBDA n : n._id \in ids)

\* label of a chunk closed inside the loop
LoopLabel(nodes, roots, index) ==
    IF Len(roots) = 1 THEN getNodeLabel(nodes, roots[1]) ELSE ChunkN(index)

\* label of the final chunk
FinalLabel(nodes, roots, index) ==
    IF Len(roots) = 1 THEN getNodeLabel(nodes, roots[1])
    ELSE IF index = 1 THEN "Complete Page"
    ELSE ChunkN(index)

WebflowChunk(label, chunkNodes) ==
    [label |-> label, nodes |-> chunkNodes, nodeCount |-> Len(chunkNodes)]

\* ExceedsLimit with >= in place of >
ExceedsLimit_OffByOne(size, subtreeSize, limit) ==
    size > 0 /\ size + subtreeSize >= limit

\* the test that closes the current chunk before a root is added
ExceedsLimit(size, subtreeSize, limit) ==
    size > 0 /\ size + subtreeSize > limit

\* splitIntoChunks is called on the compiled tree
SplitStart ==
    /\ pc = "compiled"
    /\ \E limit \in 0..MaxChunkLimit : maxNodesPerChunk' = limit
    /\ chunks' = <<>>
    /\ currentChunkNodes' = {}
    /\ currentChunkRoots' = <<>>
    /\ chunkIndex' = 1
    /\ rootPos' = 1
    /\ pc' = "splitting"
    /\ UNCHANGED <<dom, classToIdMap, contentElements, stack, allNodes, rootNodeIds, uuid, cssVars, clipVars, browserVars>>

\* SplitRoot collecting the root and its direct children only
SplitRoot_Shallow ==
    /\ pc = "splitting" /\ rootPos <= Len(rootNodeIds)
    /\ LET rootId == rootNodeIds[rootPos]
           subtreeSize == countNodesInSubtree(allNodes, rootId)
           close == ExceedsLimit(Cardinality(currentChunkNodes), subtreeSize, maxNodesPerChunk)
           baseNodes == IF close THEN {} ELSE currentChunkNodes
           baseRoots == IF close THEN <<>> ELSE currentChunkRoots
       IN  /\ chunks' = IF close
                        THEN Append(chunks,
                                 WebflowChunk(LoopLabel(allNodes, currentChunkRoots, chunkIndex),
                                              ChunkNodes(allNodes, currentChunkNodes)))
                        ELSE chunks
           /\ chunkIndex' = IF close THEN chunkIndex + 1 ELSE chunkIndex
           /\ currentChunkNodes' = baseNodes \cup {rootId}
                                   \cup Range(allNodes[FindNode(allNodes, rootId)].children)
           /\ currentChunkRoots' = Append(baseRoots, rootId)
    /\ rootPos' = rootPos + 1
    /\ UNCHANGED <<treeVars, maxNodesPerChunk, cssVars, clipVars, browserVars>>

\* one iteration of for (const rootId of rootNodeIds)
SplitRoot ==
    /\ pc = "splitting" /\ rootPos <= Len(rootNodeIds)
    /\ LET rootId == rootNodeIds[rootPos]
           subtreeSize == countNodesInSubtree(allNodes, rootId)
           close == ExceedsLimit(Cardinality(currentChunkNodes), subtreeSize, maxNodesPerChunk)
           baseNodes == IF close THEN {} ELSE currentChunkNodes
           baseRoots == IF close THEN <<>> ELSE currentChunkRoots
       IN  /\ chunks' = IF close
                        THEN Append(chunks,
                                 WebflowChunk(LoopLabel(allNodes, currentChunkRoots, chunkIndex),
                                              ChunkNodes(allNodes, currentChunkNodes)))
                        ELSE chunks
           /\ chunkIndex' = IF close THEN chunkIndex + 1 ELSE chunkIndex
           /\ currentChunkNodes' = baseNodes \cup collectSubtreeNodes(allNodes, rootId)
           /\ currentChunkRoots' = Append(baseRoots, rootId)
    /\ rootPos' = rootPos + 1
    /\ UNCHANGED <<treeVars, maxNodesPerChunk, cssVars, clipVars, browserVars>>

\* after the loop: the final chunk, if it has content, and return chunks
SplitReturn ==
    /\ pc = "splitting" /\ rootPos > Len(rootNodeIds)
    /\ chunks' = IF Cardinality(currentChunkNodes) > 0
                 THEN Append(chunks,
                          WebflowChunk(FinalLabel(allNodes, currentChunkRoots, chunkIndex),
                                       ChunkNodes(allNodes, currentChunkNodes)))
                 ELSE chunks
    /\ pc' = "split"
    /\ UNCHANGED <<dom, classToIdMap, contentElements, stack, allNodes, rootNodeIds, uuid,
                   maxNodesPerChunk, rootPos, currentChunkNodes, currentChunkRoots, chunkIndex,
                   cssVars, clipVars, browserVars>>

----------------------------------------------------------------------------
(* Style compiler: the scanning of the CSS text *)

\* position of the first token t at or after from, 0 if there is none
IndexOf(s, t, from) ==
    IF \E k \in from..Len(s) : s[k] = t
    THEN CHOOSE k \in from..Len(s) : s[k] = t /\ \A j \in from..(k - 1) : s[j] # t
    ELSE 0

\* position of the first token at or after from that is not white space
RECURSIVE SkipWs(_, _)
SkipWs(s, from) ==
    IF from <= Len(s) /\ IsWs(s[from]) THEN SkipWs(s, from + 1) ELSE from

\* cssString.replace(/\/\*[\s\S]*?\*\//g, "")
RECURSIVE StripComments(_)
StripComments(s) ==
    LET open == IndexOf(s, "/*", 1)
        close == IF open = 0 THEN 0 ELSE IndexOf(s, "*/", open + 1)
    IN  IF open = 0 \/ close = 0 THEN s
        ELSE SubSeq(s, 1, open - 1) \o StripComments(SubSeq(s, close + 1, Len(s)))

\* String.prototype.split on one separator token
RECURSIVE Split(_, _)
Split(s, sep) ==
    LET k == IndexOf(s, sep, 1)
    IN  IF k = 0 THEN <<s>>
        ELSE <<SubSeq(s, 1, k - 1)>> \o Split(SubSeq(s, k + 1, Len(s)), sep)

\* propertiesBlock.split(";").map(trim).filter(nonempty)
SplitProperties(block) ==
    LET parts == Split(block, ";")
        trimmed == [k \in 1..Len(parts) |-> Trim(parts[k])]
    IN  SelectSeq(trimmed, LAMBDA prop : Len(prop) > 0)

\* the matches of /([^{]+)\{([^}]+)\}/g from position pos on
RECURSIVE MatchRules(_, _)
MatchRules(s, pos) ==
    LET open == IndexOf(s, "{", pos)
    IN  IF pos > Len(s) \/ open = 0 THEN <<>>
        ELSE IF open = pos THEN MatchRules(s, pos + 1)
        ELSE IF open = Len(s) THEN <<>>
        ELSE IF s[open + 1] = "}" THEN MatchRules(s, open + 1)
        ELSE LET close == IndexOf(s, "}", open + 1)
             IN  IF close = 0 THEN <<>>
                 ELSE <<[selector |-> Trim(SubSeq(s, pos, open - 1)),
                         properties |-> SplitProperties(Trim(SubSeq(s, open + 1, close - 1)))]>>
                      \o MatchRules(s, close + 1)

parseCSSRules(css) == MatchRules(StripComments(css), 1)

\* the tokens that begin with a dot
DotTokens == {".a", ".b"}

DotOf(className) == "." \o className

\* the selector test of findRuleForClass
SelectorMatches(selector, className) ==
    /\ selector # <<>>
    /\ selector[1] = DotOf(className)
    /\ \/ Len(selector) = 1
       \/ selector[2] = " "
       \/ selector[2] = ":"
       \/ selector[2] \in DotTokens

\* findRuleForClass with the loop keeping the last match
findRuleForClass_LastMatch(rules, className) ==
    IF \E k \in 1..Len(rules) : SelectorMatches(rules[k].selector, className)
    THEN CHOOSE k \in 1..Len(rules) :
            /\ SelectorMatches(rules[k].selector, className)
            /\ \A j \in (k + 1)..Len(rules) : ~SelectorMatches(rules[j].selector, className)
    ELSE 0

\* position of the first rule whose selector matches, 0 for null
findRuleForClass(rules, className) ==
    IF \E k \in 1..Len(rules) : SelectorMatches(rules[k].selector, className)
    THEN CHOOSE k \in 1..Len(rules) :
            /\ SelectorMatches(rules[k].selector, className)
            /\ \A j \in 1..(k - 1) : ~SelectorMatches(rules[j].selector, className)
    ELSE 0

\* the names of custom properties
VarNames == {"--c", "--d"}

NoVariables == [n \in {} |-> <<>>]

\* position of the brace that closes the block opened before pos, 0 if none
RECURSIVE MatchBrace(_, _, _)
MatchBrace(s, pos, braceCount) ==
    IF pos > Len(s) THEN 0
    ELSE LET count == IF s[pos] = "{" THEN braceCount + 1
                      ELSE IF s[pos] = "}" THEN braceCount - 1
                      ELSE braceCount
         IN  IF count = 0 THEN pos ELSE MatchBrace(s, pos + 1, count)

\* the matches of /--([\w-]+)\s*:\s*([^;]+);/g in the :root block
RECURSIVE ScanVariables(_, _, _)
ScanVariables(content, pos, variables) ==
    IF pos > Len(content) THEN variables
    ELSE IF content[pos] \notin VarNames THEN ScanVariables(content, pos + 1, variables)
    ELSE LET colon == SkipWs(content, pos + 1)
             semi == IF colon <= Len(content) /\ content[colon] = ":"
                     THEN IndexOf(content, ";", colon + 1) ELSE 0
         IN  IF semi > colon + 1
             THEN ScanVariables(content, semi + 1,
                      MapSet(variables, content[pos],
                             Trim(SubSeq(content, colon + 1, semi - 1))))
             ELSE ScanVariables(content, pos + 1, variables)

\* position of the first ":" "root", 0 if none
RootStart(s) ==
    IF \E k \in 1..(Len(s) - 1) : s[k] = ":" /\ s[k + 1] = "root"
    THEN CHOOSE k \in 1..(Len(s) - 1) :
            /\ s[k] = ":" /\ s[k + 1] = "root"
            /\ \A j \in 1..(k - 1) : ~(s[j] = ":" /\ s[j + 1] = "root")
    ELSE 0

extractCSSVariables(css) ==
    LET cleanedCSS == StripComments(css)
        rootStart == RootStart(cleanedCSS)
        openBrace == IF rootStart = 0 THEN 0 ELSE IndexOf(cleanedCSS, "{", rootStart)
        closeBrace == IF openBrace = 0 THEN 0 ELSE MatchBrace(cleanedCSS, openBrace + 1, 1)
    IN  IF rootStart = 0 \/ openBrace = 0 \/ closeBrace = 0 THEN NoVariables
        ELSE ScanVariables(SubSeq(cleanedCSS, openBrace + 1, closeBrace - 1), 1, NoVariables)

\* what the call stack gives when the recursion of resolveCSSVariables never ends
RangeError == <<"RangeError: Maximum call stack size exceeded">>

\* the match of /var\(\s*--([\w-]+)\s*(?:,\s*([^)]+))?\)/ at the head of s
VarMatch(s) ==
    LET name == SkipWs(s, 2)
        after == SkipWs(s, name + 1)
        close == IF after <= Len(s) /\ s[after] = "," THEN IndexOf(s, ")", after + 1) ELSE 0
        NoMatch == [ok |-> FALSE, name |-> "", hasFallback |-> FALSE, fallback |-> <<>>, end |-> 0]
    IN  IF s = <<>> \/ Head(s) # "var(" \/ name > Len(s) THEN NoMatch
        ELSE IF s[name] \notin VarNames \/ after > Len(s) THEN NoMatch
        ELSE IF s[after] = ")"
        THEN [ok |-> TRUE, name |-> s[name], hasFallback |-> FALSE, fallback |-> <<>>,
              end |-> after]
        ELSE IF s[after] = "," /\ close > after + 1
        THEN [ok |-> TRUE, name |-> s[name], hasFallback |-> TRUE,
              fallback |-> SubSeq(s, after + 1, close - 1), end |-> close]
        ELSE NoMatch

\* property.replace(varRegex, callback).  depth is the number of further
\* nested calls whose arguments are all different; a chain of calls longer
\* than the number of variables repeats a call and never ends
RECURSIVE resolveCSSVariables(_, _, _)
resolveCSSVariables(property, variables, depth) ==
    IF property = <<>> THEN <<>>
    ELSE LET m == VarMatch(property)
         IN  IF ~m.ok
             THEN LET rest == resolveCSSVariables(Tail(property), variables, depth)
                  IN  IF rest = RangeError THEN RangeError ELSE <<Head(property)>> \o rest
             ELSE LET replaced ==
                          IF m.name \in DOMAIN variables
                          THEN IF "var(" \in Range(variables[m.name])
                               THEN IF depth = 0 THEN RangeError
                                    ELSE resolveCSSVariables(variables[m.name], variables,
                                                             depth - 1)
                               ELSE variables[m.name]
                          ELSE IF m.hasFallback THEN Trim(m.fallback)
                          ELSE SubSeq(property, 1, m.end)
                      rest == IF replaced = RangeError THEN RangeError
                              ELSE resolveCSSVariables(SubSeq(property, m.end + 1, Len(property)),
                                                       variables, depth)
                  IN  IF replaced = RangeError \/ rest = RangeError THEN RangeError
                      ELSE replaced \o rest

\* rule.properties.map((prop) => resolveCSSVariables(prop, cssVariables))
ResolveAll(properties, variables) ==
    [k \in 1..Len(properties) |->
        resolveCSSVariables(properties[k], variables, Cardinality(DOMAIN variables))]

Throws(resolved) == \E k \in 1..Len(resolved) : resolved[k] = RangeError

\* start of the white space that ends right before position k
RECURSIVE WsStart(_, _)
WsStart(s, k) == IF k > 1 /\ IsWs(s[k - 1]) THEN WsStart(s, k - 1) ELSE k

\* one property of convertToStyleLess: trim, drop braces, ": " at the first colon
CleanProperty(prop) ==
    LET noBraces == SelectSeq(Trim(prop), LAMBDA t : t \notin {"{", "}"})
        colon == IndexOf(noBraces, ":", 1)
    IN  IF colon = 0 THEN noBraces
        ELSE SubSeq(noBraces, 1, WsStart(noBraces, colon) - 1)
             \o <<":", " ">>
             \o SubSeq(noBraces, SkipWs(noBraces, colon + 1), Len(noBraces))

\* Array.prototype.join("; ")
RECURSIVE Join(_)
Join(parts) ==
    IF parts = <<>> THEN <<>>
    ELSE IF Len(parts) = 1 THEN parts[1]
    ELSE parts[1] \o <<";", " ">> \o Join(Tail(parts))

convertToStyleLess(properties) ==
    LET cleaned == [k \in 1..Len(properties) |-> CleanProperty(properties[k])]
    IN  Join(SelectSeq(cleaned, LAMBDA prop : Len(prop) > 0))

mapMediaQueryToBreakpoint(condition) ==
    IF "max-width" \in Range(condition)
    THEN IF "479px" \in Range(condition) \/ "480px" \in Range(condition) THEN "tiny"
         ELSE IF "767px" \in Range(condition) \/ "768px" \in Range(condition) THEN "small"
         ELSE IF "991px" \in Range(condition) \/ "992px" \in Range(condition) THEN "medium"
         ELSE "null"
    ELSE "null"

\* position of the first "\n" directly followed by "}", at or after from
EndOfMedia(s, from) ==
    IF \E k \in from..(Len(s) - 1) : s[k] = "\n" /\ s[k + 1] = "}"
    THEN CHOOSE k \in from..(Len(s) - 1) :
            /\ s[k] = "\n" /\ s[k + 1] = "}"
            /\ \A j \in from..(k - 1) : ~(s[j] = "\n" /\ s[j + 1] = "}")
    ELSE 0

NoMediaQueries == [b \in {} |-> <<>>]

\* the matches of /@media\s*([^{]+)\{([\s\S]*?)\n\}/g from position pos on
RECURSIVE MatchMedia(_, _, _)
MatchMedia(s, pos, found) ==
    LET at == IndexOf(s, "@media", pos)
        open == IF at = 0 THEN 0 ELSE IndexOf(s, "{", at + 1)
        end == IF open = 0 THEN 0 ELSE EndOfMedia(s, open + 1)
    IN  IF pos > Len(s) \/ at = 0 \/ open = 0 THEN found
        ELSE IF open = at + 1 THEN MatchMedia(s, at + 1, found)
        ELSE IF end = 0 THEN found
        ELSE LET breakpoint == mapMediaQueryToBreakpoint(Trim(SubSeq(s, at + 1, open - 1)))
                 rules == parseCSSRules(SubSeq(s, open + 1, end - 1))
             IN  MatchMedia(s, end + 2,
                            IF breakpoint = "null" THEN found
                            ELSE MapSet(found, breakpoint, rules))

parseMediaQueries(css) == MatchMedia(StripComments(css), 1, NoMediaQueries)

----------------------------------------------------------------------------
(* Style compiler: the two entry points *)

WebflowStyle(id, name, styleLess, variants) ==
    [_id |-> id, name |-> name, styleLess |-> styleLess, variants |-> variants]

NoVariants == [b \in {} |-> <<>>]

\* parseCSSToWebflow: everything before the loop over the class names
parseCSSToWebflow ==
    /\ cssPc = "idle"
    /\ cssMode' = "base"
    /\ cssVariables' = extractCSSVariables(cssString)
    /\ cssRules' = parseCSSRules(cssString)
    /\ mediaQueries' = NoMediaQueries
    /\ classToIdMap' = NoVariables
    /\ styles' = <<>>
    /\ classIdx' = 1
    /\ cssPc' = "classes"
    /\ UNCHANGED <<dom, pc, contentElements, stack, allNodes, rootNodeIds, uuid, chunkVars, clipVars, browserVars,
                   cssItems, cssString, classNames>>

\* parseCSSWithMediaQueries: everything before the loop over the class names
parseCSSWithMediaQueries ==
    /\ cssPc = "idle"
    /\ cssMode' = "media"
    /\ cssVariables' = extractCSSVariables(cssString)
    /\ cssRules' = parseCSSRules(cssString)
    /\ mediaQueries' = parseMediaQueries(cssString)
    /\ classToIdMap' = NoVariables
    /\ styles' = <<>>
    /\ classIdx' = 1
    /\ cssPc' = "classes"
    /\ UNCHANGED <<dom, pc, contentElements, stack, allNodes, rootNodeIds, uuid, chunkVars, clipVars, browserVars,
                   cssItems, cssString, classNames>>

\* the variants of one class: the breakpoints whose rules hold a match
VariantsOf(className) ==
    LET hit == { b \in DOMAIN mediaQueries : findRuleForClass(mediaQueries[b], className) # 0 }
    IN  [b \in hit |->
            ResolveAll(mediaQueries[b][findRuleForClass(mediaQueries[b], className)].properties,
                       cssVariables)]

\* ProcessClass with classes that have no rule skipped
ProcessClass_SkipUnmatched ==
    /\ cssPc = "classes" /\ classIdx <= Len(classNames)
    /\ LET className == classNames[classIdx]
           id == uuidv4(uuid)
           rule == findRuleForClass(cssRules, className)
           resolved == IF rule = 0 THEN <<>>
                       ELSE ResolveAll(cssRules[rule].properties, cssVariables)
           variants == IF cssMode = "media" THEN VariantsOf(className) ELSE NoVariants
       IN  /\ uuid' = id
           /\ classToIdMap' = MapSet(classToIdMap, className, id)
           /\ IF Throws(resolved) \/ \E b \in DOMAIN variants : Throws(variants[b])
              THEN /\ cssPc' = "thrown"
                   /\ UNCHANGED <<styles, classIdx>>
              ELSE /\ styles' = IF rule = 0 THEN styles
                                ELSE Append(styles,
                                         WebflowStyle(id, className, convertToStyleLess(resolved),
                                                      [b \in DOMAIN variants |->
                                                          convertToStyleLess(variants[b])]))
                   /\ classIdx' = classIdx + 1
                   /\ UNCHANGED cssPc
    /\ UNCHANGED <<dom, pc, contentElements, stack, allNodes, rootNodeIds, chunkVars, clipVars, browserVars,
                   cssItems, cssString, classNames, cssMode, cssVariables, cssRules,
                   mediaQueries>>

\* one iteration of for (const className of classNames), of either entry point
ProcessClass ==
    /\ cssPc = "classes" /\ classIdx <= Len(classNames)
    /\ LET className == classNames[classIdx]
           id == uuidv4(uuid)
           rule == findRuleForClass(cssRules, className)
           resolved == IF rule = 0 THEN <<>>
                       ELSE ResolveAll(cssRules[rule].properties, cssVariables)
           variants == IF cssMode = "media" THEN VariantsOf(className) ELSE NoVariants
       IN  /\ uuid' = id
           /\ classToIdMap' = MapSet(classToIdMap, className, id)
           /\ IF Throws(resolved) \/ \E b \in DOMAIN variants : Throws(variants[b])
              THEN /\ cssPc' = "thrown"
                   /\ UNCHANGED <<styles, classIdx>>
              ELSE /\ styles' = Append(styles,
                                    WebflowStyle(id, className, convertToStyleLess(resolved),
                                                 [b \in DOMAIN variants |->
                                                     convertToStyleLess(variants[b])]))
                   /\ classIdx' = classIdx + 1
                   /\ UNCHANGED cssPc
    /\ UNCHANGED <<dom, pc, contentElements, stack, allNodes, rootNodeIds, chunkVars, clipVars, browserVars,
                   cssItems, cssString, classNames, cssMode, cssVariables, cssRules,
                   mediaQueries>>

\* return { classToIdMap, styles }
ParseReturn ==
    /\ cssPc = "classes" /\ classIdx > Len(classNames)
    /\ cssPc' = "returned"
    /\ UNCHANGED <<treeVars, chunkVars, clipVars, browserVars, cssItems, cssString, classNames, cssMode, cssVariables,
                   cssRules, mediaQueries, classIdx, styles>>

----------------------------------------------------------------------------
(* Clipboard transport: copyToWebflow(webflowData) *)

NoResult == [success |-> FALSE, error |-> "", message |-> "pending"]

CopyResult(success, error, message) ==
    [success |-> success, error |-> error, message |-> message]

\* !webflowData || webflowData.type !== "@webflow/XscpData"
InvalidWebflowData(data) == data.isNull \/ data.type # "@webflow/XscpData"

\* JSON.stringify(webflowData)
Stringify(data) == <<"{\"type\":\"", data.type, "\",\"payload\":", data.payload, "}">>

\* the ClipboardItem of the first attempt
ClipboardItemHtmlAndPlain(text) ==
    [mime \in {"text/html", "text/plain"} |-> text]

\* the ClipboardItem of the fallback
ClipboardItemPlain(text) ==
    [mime \in {"text/plain"} |-> text]

\* what a rejected navigator.clipboard.write can throw
WriteErrors == {"NotAllowedError", "SecurityError", "DataError", "not an Error"}

\* the outer catch block
CopyFailure(error) ==
    CASE error = "NotAllowedError" ->
            CopyResult(FALSE, "Permission denied", "Clipboard access was denied")
      [] error = "SecurityError" ->
            CopyResult(FALSE, "Security error", "Clipboard access needs a secure origin")
      [] error = "not an Error" ->
            CopyResult(FALSE, "Unknown error", "An unknown error occurred")
      [] OTHER -> CopyResult(FALSE, error, "Failed to copy")

CopySuccess == CopyResult(TRUE, "", "Copied to clipboard!")

\* the body of copyToWebflow up to its first await: the checks,
\* JSON.stringify and the call of navigator.clipboard.write with the
\* text/html + text/plain item.  Where the ClipboardItem constructor does not
\* exist both constructions throw a ReferenceError into the outer catch.
copyToWebflowCall ==
    /\ IF ~navigatorClipboard
       THEN /\ copyResult' = CopyResult(FALSE, "Clipboard API not available",
                                        "Your browser doesn't support the Clipboard API")
            /\ copyPc' = "returned"
            /\ UNCHANGED jsonString
       ELSE IF InvalidWebflowData(webflowData)
       THEN /\ copyResult' = CopyResult(FALSE, "Invalid Webflow data",
                                        "Data must have type @webflow/XscpData")
            /\ copyPc' = "returned"
            /\ UNCHANGED jsonString
       ELSE IF ~clipboardItem
       THEN /\ jsonString' = Stringify(webflowData)
            /\ copyResult' = CopyFailure("ReferenceError")
            /\ copyPc' = "returned"
       ELSE /\ jsonString' = Stringify(webflowData)
            /\ copyPc' = "write html and plain"
            /\ UNCHANGED copyResult
    /\ UNCHANGED <<navigatorClipboard, clipboardItem, webflowData>>

\* a direct call of copyToWebflow
copyToWebflow ==
    /\ copyPc = "idle"
    /\ copyToWebflowCall
    /\ UNCHANGED <<treeVars, chunkVars, cssVars, clipboard, browserVars>>

\* the first write settles: fulfilled, or rejected and the fallback write of
\* a text/plain item is started
WriteHtmlAndPlainSettles ==
    /\ copyPc = "write html and plain"
    /\ \/ /\ clipboard' = ClipboardItemHtmlAndPlain(jsonString)
          /\ copyResult' = CopySuccess
          /\ copyPc' = "returned"
       \/ /\ copyPc' = "write plain"
          /\ UNCHANGED <<clipboard, copyResult>>
    /\ UNCHANGED <<treeVars, chunkVars, cssVars, navigatorClipboard, clipboardItem, webflowData,
                   jsonString, browserVars>>

\* the fallback write settles: fulfilled, or rejected into the outer catch
WritePlainSettles ==
    /\ copyPc = "write plain"
    /\ \/ /\ clipboard' = ClipboardItemPlain(jsonString)
          /\ copyResult' = CopySuccess
       \/ /\ \E error \in WriteErrors : copyResult' = CopyFailure(error)
          /\ UNCHANGED clipboard
    /\ copyPc' = "returned"
    /\ UNCHANGED <<treeVars, chunkVars, cssVars, navigatorClipboard, clipboardItem, webflowData,
                   jsonString, browserVars>>

\* copyToWebflow has not been called
ClipIdle ==
    /\ copyPc = "idle"
    /\ jsonString = <<>>
    /\ copyResult = NoResult

\* the clipboard transport while the compilers run
IdleClipboard ==
    /\ ClipIdle
    /\ navigatorClipboard = TRUE
    /\ clipboardItem = TRUE
    /\ webflowData = [isNull |-> TRUE, type |-> "", payload |-> ""]
    /\ clipboard = EmptyObject

----------------------------------------------------------------------------
(* Clipboard transport: copyToWebflowFallback and copyToWebflowSmart *)

\* JSON.stringify of any argument, null included
StringifyAny(data) == IF data.isNull THEN <<"null">> ELSE Stringify(data)

\* what document.execCommand("copy") can do
ExecCommandOutcomes == {"true", "false", "throws"}

FallbackSuccess == CopyResult(TRUE, "", "Copied to clipboard (fallback method)")

\* copyToWebflowFallback, which has no await: a textarea holding the JSON
\* text is appended and selected, execCommand copies the selection as plain
\* text, and the textarea is removed unless execCommand threw
copyToWebflowFallback(successful) ==
    /\ clipboard' = IF successful = "true"
                    THEN ClipboardItemPlain(StringifyAny(webflowData))
                    ELSE clipboard
    /\ textareas' = IF successful = "throws" THEN textareas + 1 ELSE textareas
    /\ fallbackResult' =
          CASE successful = "true" -> FallbackSuccess
            [] successful = "false" ->
                  CopyResult(FALSE, "Copy failed", "Failed to copy using fallback method.")
            [] OTHER -> CopyResult(FALSE, "execCommand threw", "Failed to copy to clipboard.")

\* the condition under which copyToWebflowSmart takes the modern API
ModernApiAvailable == clipboardItem /\ navigatorClipboard

\* copyToWebflowSmart up to its first await: the modern attempt is started,
\* or the fallback runs at once and its result is returned
copyToWebflowSmart ==
    /\ smartPc = "idle"
    /\ copyPc = "idle"
    /\ IF ModernApiAvailable
       THEN /\ copyToWebflowCall
            /\ smartPc' = "await copyToWebflow"
            /\ UNCHANGED <<clipboard, smartResult, fallbackResult, textareas>>
       ELSE /\ \E successful \in ExecCommandOutcomes : copyToWebflowFallback(successful)
            /\ smartResult' = fallbackResult'
            /\ smartPc' = "returned"
            /\ UNCHANGED <<navigatorClipboard, clipboardItem, webflowData, copyPc, jsonString,
                           copyResult>>
    /\ UNCHANGED <<treeVars, chunkVars, cssVars, customVars, pageVars>>

\* the fallback runs whatever the modern attempt returned
SmartResumes_AlwaysFallback ==
    /\ smartPc = "await copyToWebflow"
    /\ copyPc = "returned"
    /\ \E successful \in ExecCommandOutcomes : copyToWebflowFallback(successful)
    /\ smartResult' = fallbackResult'
    /\ smartPc' = "returned"
    /\ UNCHANGED <<treeVars, chunkVars, cssVars, navigatorClipboard, clipboardItem, webflowData,
                   copyPc, jsonString, copyResult, customVars, pageVars>>

\* copyToWebflowSmart after copyToWebflow has returned: a success is returned
\* as it is, a failure is followed by the fallback
SmartResumes ==
    /\ smartPc = "await copyToWebflow"
    /\ copyPc = "returned"
    /\ IF copyResult.success
       THEN /\ smartResult' = copyResult
            /\ UNCHANGED <<clipboard, fallbackResult, textareas>>
       ELSE /\ \E successful \in ExecCommandOutcomes : copyToWebflowFallback(successful)
            /\ smartResult' = fallbackResult'
    /\ smartPc' = "returned"
    /\ UNCHANGED <<treeVars, chunkVars, cssVars, navigatorClipboard, clipboardItem, webflowData,
                   copyPc, jsonString, copyResult, customVars, pageVars>>

\* copyToWebflowSmart has not been called
SmartIdle ==
    /\ smartPc = "idle"
    /\ smartResult = NoResult
    /\ fallbackResult = NoResult
    /\ textareas = 0

----------------------------------------------------------------------------
(* Clipboard transport: copyToWebflowCustom (lib/clipboard-custom.ts).  The  *)
(* promise executor runs synchronously, and document.execCommand("copy")    *)
(* dispatches the copy event, if it does, before it returns.                *)

\* the arguments the transport is called with
ClipPayloads == {"[]", "[div]", "[div,p]", "[form]"}

ClipboardInputs ==
    { [isNull |-> TRUE, type |-> "", payload |-> ""] }
    \cup { [isNull |-> FALSE, type |-> t, payload |-> q] :
             t \in {"@webflow/XscpData", "other"}, q \in ClipPayloads }

\* a promise: pending, or resolved with { success, message }
PendingPromise == [settled |-> FALSE, success |-> FALSE, message |-> ""]

Resolved(success, message) == [settled |-> TRUE, success |-> success, message |-> message]

\* resolve(value) has no effect on a promise that is settled
Resolve(promise, value) == IF promise.settled THEN promise ELSE value

\* what the platform does with document.execCommand("copy"): whether the
\* copy event reaches the listeners of document, whether the event carries a
\* clipboardData, and what the command returns or throws
ExecCommands == [dispatched : BOOLEAN, clipboardData : BOOLEAN, successful : ExecCommandOutcomes]

\* the DataTransfer after the three setData calls of copyHandler
DataTransferOf(text) ==
    [mime \in {"application/json", "text/plain", "text/html"} |-> text]

\* the largest element of a non-empty set of numbers
Max(S) == CHOOSE x \in S : \A y \in S : y <= x

\* the copy handlers of the calls L run, in the order they were attached:
\* each resolves its promise, removes itself and removes its tempInput
HandlersRun(L, event, ps) ==
    [c \in DOMAIN ps |->
        IF c \in L
        THEN Resolve(ps[c], IF event.clipboardData
                            THEN Resolved(TRUE, "Copied to clipboard!")
                            ELSE Resolved(FALSE, "Clipboard not available"))
        ELSE ps[c]]

\* removeChild(tempInput) of the calls L
Attempts(L, n, counts) ==
    [c \in DOMAIN counts |-> IF c \in L THEN counts[c] + n ELSE counts[c]]

\* copyToWebflowCustom(data), with what execCommand did.  After the event,
\* the branch of a false or thrown execCommand removes the listener and the
\* input again; removeChild throws NotFoundError where the handler had
\* removed the input, once into the catch block and from there out of the
\* executor.
copyToWebflowCustom(data, exec) ==
    LET c == customCalls + 1
        L == copyListeners \cup {c}
        ran == exec.dispatched
        ps == Append(promises, PendingPromise)
        counts == Append(removeAttempts, 0)
    IN  /\ customCalls' = c
        /\ customJson' = Append(customJson, StringifyAny(data))
        /\ clipboard' = IF ran /\ exec.clipboardData
                        THEN DataTransferOf(StringifyAny(data))
                        ELSE clipboard
        /\ IF exec.successful = "true"
           THEN /\ promises' = IF ran THEN HandlersRun(L, exec, ps) ELSE ps
                /\ copyListeners' = IF ran THEN {} ELSE L
                /\ tempInputs' = IF ran THEN {} ELSE tempInputs \cup {c}
                /\ removeAttempts' = IF ran THEN Attempts(L, 1, counts) ELSE counts
                /\ UNCHANGED uncaught
           ELSE IF ran
           THEN /\ promises' = HandlersRun(L, exec, ps)
                /\ copyListeners' = {}
                /\ tempInputs' = {}
                /\ removeAttempts' =
                      Attempts({c}, IF exec.successful = "false" THEN 2 ELSE 1,
                               Attempts(L, 1, counts))
                /\ uncaught' = uncaught + 1
           ELSE /\ promises' =
                      [ps EXCEPT ![c] =
                          Resolved(FALSE, IF exec.successful = "false"
                                          THEN "Copy command failed"
                                          ELSE "Copy command error")]
                /\ copyListeners' = copyListeners
                /\ tempInputs' = tempInputs
                /\ removeAttempts' = Attempts({c}, 1, counts)
                /\ UNCHANGED uncaught

\* the arguments copyToWebflowCustom is called with
CustomInputs ==
    { [isNull |-> TRUE, type |-> "", payload |-> ""],
      [isNull |-> FALSE, type |-> "@webflow/XscpData", payload |-> "[div]"],
      [isNull |-> FALSE, type |-> "@webflow/XscpData", payload |-> "[div,p]"] }

\* a call of copyToWebflowCustom
CallCopyToWebflowCustom ==
    /\ customCalls < MaxCalls
    /\ \E data \in CustomInputs, exec \in ExecCommands : copyToWebflowCustom(data, exec)
    /\ UNCHANGED <<treeVars, chunkVars, cssVars, navigatorClipboard, clipboardItem, webflowData,
                   copyPc, jsonString, copyResult, smartVars, pageVars>>

\* the user copies something while handlers of earlier calls are attached:
\* the handlers run on that event
UserCopies ==
    /\ copyListeners # {}
    /\ \E clipboardData \in BOOLEAN :
          /\ promises' = HandlersRun(copyListeners,
                                     [dispatched |-> TRUE, clipboardData |-> clipboardData],
                                     promises)
          /\ clipboard' = IF clipboardData
                          THEN DataTransferOf(customJson[Max(copyListeners)])
                          ELSE clipboard
    /\ copyListeners' = {}
    /\ tempInputs' = tempInputs \ copyListeners
    /\ removeAttempts' = Attempts(copyListeners, 1, removeAttempts)
    /\ UNCHANGED <<treeVars, chunkVars, cssVars, navigatorClipboard, clipboardItem, webflowData,
                   copyPc, jsonString, copyResult, smartVars, customCalls, customJson, uncaught,
                   pageVars>>

\* copyToWebflowCustom has not been called
CustomIdle ==
    /\ customCalls = 0
    /\ customJson = <<>>
    /\ promises = <<>>
    /\ copyListeners = {}
    /\ tempInputs = {}
    /\ removeAttempts = <<>>
    /\ uncaught = 0

----------------------------------------------------------------------------
(* Converter page: the handlers of ConverterPage that write copyStatus.     *)
(* The conversion of the two text areas is summarised by its outcome: it    *)
(* throws, or it yields a number of chunks.                                 *)

Conversions == [threw : BOOLEAN, chunks : 0 .. 2]

\* the data of a single-chunk run
PageData == [isNull |-> FALSE, type |-> "@webflow/XscpData", payload |-> "[div]"]

\* setTimeout(callback, delay) of a run; the callback sets copyStatus to
\* idle and, except after a failed copy, copyMessage to ""
Timer(run, delay, clearsMessage) ==
    [run |-> run, delay |-> delay, clearsMessage |-> clearsMessage]

RemoveAt(s, i) == [k \in 1 .. Len(s) - 1 |-> IF k < i THEN s[k] ELSE s[k + 1]]

\* a timer cannot fire before one that was armed earlier with a delay that is
\* not longer
CanFire(i) == \A j \in 1 .. i - 1 : timers[j].delay > timers[i].delay

\* a continuation is ready to run: clicks and timers wait for it
MicrotaskQueued ==
    \E i \in DOMAIN suspended :
        /\ suspended[i].handler = "handleConvertAndCopy"
        /\ promises[suspended[i].call].settled

\* the main button is enabled, or the Retry Copy button is shown
CanConvert == copyStatus # "copying" \/ hasWebflowData

\* handleConvertAndCopy up to its await, or to its end on the paths that
\* have no await
handleConvertAndCopy ==
    /\ handlerRuns < MaxRuns
    /\ CanConvert
    /\ ~MicrotaskQueued
    /\ handlerRuns' = handlerRuns + 1
    /\ statusRun' = handlerRuns + 1
    /\ \E conversion \in Conversions :
          IF conversion.threw
          THEN /\ copyStatus' = "error"
               /\ copyMessage' = "Conversion failed"
               /\ timers' = Append(timers, Timer(handlerRuns + 1, 5000, TRUE))
               /\ UNCHANGED <<hasWebflowData, chunkCount, suspended, customVars, clipboard>>
          ELSE IF conversion.chunks = 1
          THEN /\ chunkCount' = 1
               /\ hasWebflowData' = TRUE
               /\ \E exec \in ExecCommands : copyToWebflowCustom(PageData, exec)
               /\ copyStatus' = "copying"
               /\ copyMessage' = ""
               /\ suspended' = Append(suspended,
                                      [run |-> handlerRuns + 1,
                                       handler |-> "handleConvertAndCopy",
                                       call |-> customCalls + 1])
               /\ UNCHANGED timers
          ELSE /\ chunkCount' = conversion.chunks
               /\ copyStatus' = "success"
               /\ copyMessage' = "Converted! Copy each chunk below in order."
               /\ UNCHANGED <<hasWebflowData, suspended, timers, customVars, clipboard>>
    /\ UNCHANGED <<treeVars, chunkVars, cssVars, navigatorClipboard, clipboardItem, webflowData,
                   copyPc, jsonString, copyResult, smartVars>>

\* handleConvertAndCopy after its await
ConvertResumes ==
    /\ \E i \in DOMAIN suspended :
          /\ suspended[i].handler = "handleConvertAndCopy"
          /\ promises[suspended[i].call].settled
          /\ IF promises[suspended[i].call].success
             THEN /\ copyStatus' = "success"
                  /\ copyMessage' = "Copied to clipboard!"
                  /\ timers' = Append(timers, Timer(suspended[i].run, 5000, TRUE))
             ELSE /\ copyStatus' = "error"
                  /\ copyMessage' = "Try the 'Download JSON' button as an alternative."
                  /\ timers' = Append(timers, Timer(suspended[i].run, 10000, FALSE))
          /\ statusRun' = suspended[i].run
          /\ suspended' = RemoveAt(suspended, i)
    /\ UNCHANGED <<treeVars, chunkVars, cssVars, clipVars, smartVars, customVars, hasWebflowData,
                   chunkCount, handlerRuns>>

\* handleRequestPermission up to its await of navigator.clipboard.write
handleRequestPermission ==
    /\ handlerRuns < MaxRuns
    /\ hasWebflowData
    /\ ~MicrotaskQueued
    /\ handlerRuns' = handlerRuns + 1
    /\ suspended' = Append(suspended,
                           [run |-> handlerRuns + 1,
                            handler |-> "handleRequestPermission",
                            call |-> 0])
    /\ UNCHANGED <<treeVars, chunkVars, cssVars, clipVars, smartVars, customVars, copyStatus,
                   copyMessage, hasWebflowData, chunkCount, timers, statusRun>>

\* the write of handleRequestPermission settles: fulfilled, or rejected into
\* the alert of the catch block
PermissionWriteSettles ==
    /\ ~MicrotaskQueued
    /\ \E i \in DOMAIN suspended :
          /\ suspended[i].handler = "handleRequestPermission"
          /\ \/ /\ clipboard' = [mime \in {"application/json"} |-> Stringify(PageData)]
                /\ copyStatus' = "success"
                /\ copyMessage' = "Permission granted! Copied to clipboard."
                /\ timers' = Append(timers, Timer(suspended[i].run, 5000, TRUE))
                /\ statusRun' = suspended[i].run
             \/ UNCHANGED <<clipboard, copyStatus, copyMessage, timers, statusRun>>
          /\ suspended' = RemoveAt(suspended, i)
    /\ UNCHANGED <<treeVars, chunkVars, cssVars, navigatorClipboard, clipboardItem, webflowData,
                   copyPc, jsonString, copyResult, smartVars, customVars, hasWebflowData,
                   chunkCount, handlerRuns>>

\* a setTimeout callback runs
TimerFires ==
    /\ ~MicrotaskQueued
    /\ \E i \in DOMAIN timers :
          /\ CanFire(i)
          /\ copyStatus' = "idle"
          /\ copyMessage' = IF timers[i].clearsMessage THEN "" ELSE copyMessage
          /\ timers' = RemoveAt(timers, i)
    /\ UNCHANGED <<treeVars, chunkVars, cssVars, clipVars, smartVars, customVars, hasWebflowData,
                   chunkCount, handlerRuns, suspended, statusRun>>

\* the user copies something on the page while a copy handler is attached
PageUserCopies ==
    /\ ~MicrotaskQueued
    /\ UserCopies

\* the page after its first render
PageIdle ==
    /\ copyStatus = "idle"
    /\ copyMessage = ""
    /\ hasWebflowData = FALSE
    /\ chunkCount = 0
    /\ handlerRuns = 0
    /\ suspended = <<>>
    /\ timers = <<>>
    /\ statusRun = 0

\* the browser side while the compilers run
IdleBrowser ==
    /\ IdleClipboard
    /\ SmartIdle
    /\ CustomIdle
    /\ PageIdle

----------------------------------------------------------------------------
(* Specifications of the tree compiler and of the chunker *)

ClassAttrC == <<<<"class", <<"c">>>>>>

TreeTemplates ==
    { ElementT("div", ClassAttrC), ElementT("p", <<>>), ElementT("html", <<>>),
      ElementT("body", <<>>), ElementT("script", <<>>),
      TextT(<<"Hello">>), TextT(<<" ">>) }

ChunkTemplates ==
    { ElementT("div", <<>>), ElementT("header", <<>>), ElementT("video", <<>>),
      TextT(<<"Hello">>) }

ClassMaps == { [c \in {"c"} |-> "S"] }

\* the style compiler before a call
CssIdle ==
    /\ cssPc = "idle"
    /\ cssMode = "none"
    /\ cssVariables = NoVariables
    /\ cssRules = <<>>
    /\ mediaQueries = NoMediaQueries
    /\ classIdx = 1
    /\ styles = <<>>

\* a document of at most n nodes handed to the compiler at position start
InitDocument(T, maps, n, start) ==
    /\ dom \in Doms(T, n)
    /\ classToIdMap \in maps
    /\ pc = start
    /\ contentElements = <<>>
    /\ stack = <<>>
    /\ allNodes = <<>>
    /\ rootNodeIds = <<>>
    /\ uuid = 0
    /\ maxNodesPerChunk = 0
    /\ rootPos = 1
    /\ currentChunkNodes = {}
    /\ currentChunkRoots = <<>>
    /\ chunkIndex = 1
    /\ chunks = <<>>
    /\ cssItems = <<>>
    /\ cssString = <<>>
    /\ classNames = <<>>
    /\ CssIdle
    /\ IdleBrowser

InitPipelineOf(T, maps, n) == InitDocument(T, maps, n, "parsed")

InitPipelineWith(T, maps) == InitPipelineOf(T, maps, MaxDomNodes)

InitPipeline(T) == InitPipelineWith(T, ClassMaps)

InitTree == InitPipeline(TreeTemplates)

NextTree ==
    \/ CompileStart
    \/ ProcessRoot
    \/ ProcessChildElement
    \/ ProcessChildText
    \/ ElementReturn
    \/ CompileReturn

SpecTree == InitTree /\ [][NextTree]_vars

InitChunk == InitPipeline(ChunkTemplates)

NextChunk ==
    \/ NextTree
    \/ SplitStart
    \/ SplitRoot
    \/ SplitReturn

SpecChunk == InitChunk /\ [][NextChunk]_vars

\* documents of forms and of form controls, inside and outside a form
TypeAttr(value) == <<<<"type", <<value>>>>>>

FormTemplates ==
    { ElementT("form", <<>>), ElementT("div", <<>>), ElementT("label", <<>>),
      ElementT("select", <<>>), ElementT("textarea", <<>>),
      ElementT("input", <<>>), ElementT("input", TypeAttr("SUBMIT")),
      ElementT("input", TypeAttr("Radio")), ElementT("input", TypeAttr("checkbox")),
      TextT(<<"Name">>) }

InitForm == InitPipeline(FormTemplates)

SpecForm == InitForm /\ [][NextTree]_vars

\* input elements of every type, in and outside a form
InputTypeValues ==
    {"text", "email", "submit", "SUBMIT", "button", "Button", "radio", "Radio", "checkbox",
     "CHECKBOX"}

InputTemplates ==
    { ElementT("form", <<>>), ElementT("input", <<>>), ElementT("input", <<<<"type", <<>>>>>>),
      TextT(<<"Name">>) }
    \cup { ElementT("input", TypeAttr(value)) : value \in InputTypeValues }

InitInput == InitPipelineOf(InputTemplates, ClassMaps, MaxTypeNodes)

SpecInput == InitInput /\ [][NextTree]_vars

\* documents of custom elements, class lists and text
DataTemplates ==
    { ElementT("video", <<<<"class", <<"c">>>>, <<"controls", <<>>>>,
                          <<"src", <<"a.mp4">>>>, <<"id", <<"v">>>>>>),
      ElementT("my-card", <<<<"data-x", <<"1", " ", "2">>>>>>),
      ElementT("div", <<<<"class", <<"d", " ", "x", " ", "c">>>>>>),
      ElementT("div", <<<<"class", <<" ", "x", "\n">>>>>>),
      ElementT("p", <<<<"class", <<"c", " ", "c">>>>>>),
      ElementT("span", <<>>),
      TextT(<<" ", "Hello", " ", "World", "\n">>),
      TextT(<<" ", "\n">>) }

DataClassMaps == { [n \in {"c", "d"} |-> IF n = "c" THEN "S" ELSE "T"] }

InitData == InitPipelineWith(DataTemplates, DataClassMaps)

SpecData == InitData /\ [][NextTree]_vars

\* documents whose elements share class names
StyleTemplates ==
    { ElementT("div", <<<<"class", <<"c", " ", "d">>>>>>),
      ElementT("div", <<<<"class", <<"c">>>>>>),
      ElementT("p", <<<<"class", <<" ", "d", "\n">>>>>>),
      ElementT("span", <<>>),
      ElementT("body", <<<<"class", <<"e">>>>>>),
      TextT(<<"Hello">>) }

InitStyles == InitDocument(StyleTemplates, {EmptyObject}, MaxDomNodes, "html")

NextStyles ==
    \/ compileHTMLWithStyles
    \/ NextTree

SpecStyles == InitStyles /\ [][NextStyles]_vars

\* documents with an element of every type of the tag table
TypeTemplates ==
    { ElementT("div", <<<<"id", <<"top">>>>>>),
      ElementT("section", <<>>),
      ElementT("container", <<>>),
      ElementT("h1", <<<<"class", <<"c">>>>>>),
      ElementT("p", <<>>),
      ElementT("a", <<<<"href", <<"https://x.io">>>>, <<"class", <<"button">>>>>>),
      ElementT("img", <<<<"src", <<"a.png">>>>, <<"tag", <<"x">>>>>>),
      ElementT("form", <<<<"name", <<"f">>>>>>),
      ElementT("input", <<<<"text", <<"x">>>>>>),
      ElementT("input", TypeAttr("submit")),
      ElementT("label", <<>>),
      ElementT("li", <<>>),
      TextT(<<"Hello">>) }

InitTypes == InitPipelineOf(TypeTemplates, ClassMaps, MaxTypeNodes)

SpecTypes == InitTypes /\ [][NextTree]_vars

----------------------------------------------------------------------------
(* Specification of the style compiler.  A style sheet is written as a      *)
(* sequence of blocks; the compiler only sees the text.                     *)

Decl(property, value) == <<property, ":", " ">> \o value \o <<";">>

\* selector { declarations }
RuleBlock(selector, declarations) ==
    [kind |-> "rule", selector |-> selector, declarations |-> declarations,
     text |-> selector \o <<" ", "{", " ">> \o declarations \o <<" ", "}">>]

\* selector {}
EmptyRuleBlock(selector) ==
    [kind |-> "rule", selector |-> selector, declarations |-> <<>>,
     text |-> selector \o <<" ", "{", "}">>]

\* :root { declarations }
RootBlock(declarations) ==
    [kind |-> "root", selector |-> <<":", "root">>, declarations |-> declarations,
     text |-> <<":", "root", " ", "{", " ">> \o declarations \o <<" ", "}">>]

\* @media (max-width: width) { rule }, the rule on a line of its own
MediaBlock(width, rule) ==
    [kind |-> "media", selector |-> rule.selector, declarations |-> rule.declarations,
     text |-> <<"@media", " ", "(", "max-width", ":", " ", width, ")", " ", "{", "\n">>
              \o rule.text \o <<"\n", "}">>]

\* a comment around a rule
CommentBlock(rule) ==
    [kind |-> "comment", selector |-> <<>>, declarations |-> <<>>,
     text |-> <<"/*", " ">> \o rule.text \o <<" ", "*/">>]

\* text that is no CSS block
StrayText(text) ==
    [kind |-> "stray", selector |-> <<>>, declarations |-> <<>>, text |-> text]

ColorRed == Decl("color", <<"red">>)
ColorBlue == Decl("color", <<"blue">>)

CssBlocks ==
    { RuleBlock(<<".a">>, ColorRed),
      RuleBlock(<<".a">>, Decl("color", <<"var(", "--c", ")">>)),
      RuleBlock(<<".a">>, Decl("color", <<"var(", "--c", ",", " ", "blue", ")">>)),
      RuleBlock(<<".a">>, Decl("color", <<"var(", "--c", ",", " ", "var(", "--d", ")", ")">>)),
      RuleBlock(<<".a", ":", "hover">>, ColorBlue),
      RuleBlock(<<".a", ".b">>, ColorBlue),
      RuleBlock(<<".b">>, <<"top", ":", " ", "0">>),
      EmptyRuleBlock(<<".a">>),
      RootBlock(Decl("--c", <<"red">>)),
      RootBlock(Decl("--d", <<"blue">>)),
      RootBlock(Decl("--c", <<"var(", "--d", ")">>) \o <<" ">> \o Decl("--d", <<"blue">>)),
      RootBlock(Decl("--c", <<"var(", "--d", ")">>) \o <<" ">>
                \o Decl("--d", <<"var(", "--c", ")">>)),
      MediaBlock("767px", RuleBlock(<<".a">>, ColorBlue)),
      CommentBlock(RuleBlock(<<".a">>, ColorBlue)),
      StrayText(<<"}">>),
      StrayText(<<"{">>) }

ClassNameUniverse == {"a", "b"}

\* the text of a style sheet: its blocks, one per line
RECURSIVE CssText(_)
CssText(items) ==
    IF items = <<>> THEN <<>>
    ELSE IF Len(items) = 1 THEN items[1].text
    ELSE items[1].text \o <<"\n">> \o CssText(Tail(items))

SeqsUpTo(S, n) == UNION { [1..k -> S] : k \in 0..n }

\* the tree compiler and the chunker while the style compiler runs
IdleOutsideCss ==
    /\ dom = <<>>
    /\ classToIdMap = NoVariables
    /\ pc = "parsed"
    /\ contentElements = <<>>
    /\ stack = <<>>
    /\ allNodes = <<>>
    /\ rootNodeIds = <<>>
    /\ uuid = 0
    /\ maxNodesPerChunk = 0
    /\ rootPos = 1
    /\ currentChunkNodes = {}
    /\ currentChunkRoots = <<>>
    /\ chunkIndex = 1
    /\ chunks = <<>>

InitCss ==
    /\ cssItems \in SeqsUpTo(CssBlocks, MaxCssItems)
    /\ cssString = CssText(cssItems)
    /\ classNames \in SeqsUpTo(ClassNameUniverse, MaxClassNames)
    /\ CssIdle
    /\ IdleOutsideCss
    /\ IdleBrowser

NextCss ==
    \/ parseCSSToWebflow
    \/ parseCSSWithMediaQueries
    \/ ProcessClass
    \/ ParseReturn

SpecCss == InitCss /\ [][NextCss]_vars

----------------------------------------------------------------------------
(* Specification of parseCSSWithMediaQueries on responsive style sheets *)

\* @media (max-width: width) { rule }, written as the test of the parser
\* writes it: the block indented, its closing brace after the indentation
MediaBlockIndented(width, rule) ==
    [kind |-> "media", selector |-> rule.selector, declarations |-> rule.declarations,
     text |-> <<" ", "@media", " ", "(", "max-width", ":", " ", width, ")", " ", "{", "\n", " ">>
              \o rule.text \o <<"\n", " ", "}">>]

\* @media (max-width: width) { first rule }, two rules on lines of their own
MediaBlockOfTwo(width, first, rule) ==
    [kind |-> "media", selector |-> rule.selector, declarations |-> rule.declarations,
     text |-> <<"@media", " ", "(", "max-width", ":", " ", width, ")", " ", "{", "\n">>
              \o first.text \o <<"\n">> \o rule.text \o <<"\n", "}">>]

TopZero == Decl("top", <<"0">>)

MediaCssBlocks ==
    { RuleBlock(<<".a">>, ColorRed),
      RuleBlock(<<".b">>, TopZero),
      MediaBlock("767px", RuleBlock(<<".a">>, ColorBlue)),
      MediaBlock("479px", RuleBlock(<<".a">>, ColorBlue)),
      MediaBlock("991px", RuleBlock(<<".a">>, TopZero)),
      MediaBlock("1200px", RuleBlock(<<".a">>, TopZero)),
      MediaBlockIndented("767px", RuleBlock(<<".a">>, ColorBlue)),
      MediaBlockOfTwo("767px", RuleBlock(<<".b">>, TopZero), RuleBlock(<<".a">>, ColorBlue)) }

InitMedia ==
    /\ cssItems \in SeqsUpTo(MediaCssBlocks, MaxCssItems)
    /\ cssString = CssText(cssItems)
    /\ classNames \in SeqsUpTo(ClassNameUniverse, MaxClassNames)
    /\ CssIdle
    /\ IdleOutsideCss
    /\ IdleBrowser

NextMedia ==
    \/ parseCSSWithMediaQueries
    \/ ProcessClass
    \/ ParseReturn

SpecMedia == InitMedia /\ [][NextMedia]_vars

----------------------------------------------------------------------------
(* Specification of the clipboard transport *)

\* what the clipboard holds before the call
ClipboardContents ==
    { EmptyObject,
      [mime \in {"text/plain"} |-> <<"old">>],
      [mime \in {"text/plain", "application/json"} |-> <<"old">>] }

InitClip ==
    /\ ClipIdle
    /\ SmartIdle
    /\ CustomIdle
    /\ PageIdle
    /\ navigatorClipboard \in BOOLEAN
    /\ clipboardItem \in BOOLEAN
    /\ webflowData \in ClipboardInputs
    /\ clipboard \in ClipboardContents
    /\ cssItems = <<>>
    /\ cssString = <<>>
    /\ classNames = <<>>
    /\ CssIdle
    /\ IdleOutsideCss

NextClip ==
    \/ copyToWebflow
    \/ WriteHtmlAndPlainSettles
    \/ WritePlainSettles

SpecClip == InitClip /\ [][NextClip]_vars

\* copyToWebflowSmart is called where copyToWebflow was
NextSmart ==
    \/ copyToWebflowSmart
    \/ WriteHtmlAndPlainSettles
    \/ WritePlainSettles
    \/ SmartResumes

SpecSmart == InitClip /\ [][NextSmart]_vars

\* copyToWebflowCustom is called, at most MaxCalls times
NextCustom ==
    \/ CallCopyToWebflowCustom
    \/ UserCopies

InitCustom ==
    /\ InitClip
    /\ navigatorClipboard
    /\ clipboardItem
    /\ webflowData.isNull

SpecCustom == InitCustom /\ [][NextCustom]_vars

----------------------------------------------------------------------------
(* Specification of the converter page *)

NextPage ==
    \/ handleConvertAndCopy
    \/ ConvertResumes
    \/ handleRequestPermission
    \/ PermissionWriteSettles
    \/ TimerFires
    \/ PageUserCopies

SpecPage == InitCustom /\ [][NextPage]_vars

\* timers fire and continuations run; the user need not act
PageFairness ==
    /\ WF_vars(TimerFires)
    /\ WF_vars(ConvertResumes)
    /\ WF_vars(PermissionWriteSettles)

SpecPageFair == SpecPage /\ PageFairness

----------------------------------------------------------------------------
(* Properties of the compiled tree and of the chunks *)

Ids(nodes) == { nodes[k]._id : k \in 1..Len(nodes) }

\* ids that occur in the child list of a node whose id is in S
ChildIdsOf(nodes, S) ==
    UNION { Range(nodes[k].children) : k \in { j \in 1..Len(nodes) : nodes[j]._id \in S } }

RECURSIVE ReachWithin(_, _, _)
ReachWithin(nodes, S, k) ==
    IF k = 0 THEN S ELSE ReachWithin(nodes, S \cup ChildIdsOf(nodes, S), k - 1)

\* every id reachable from the child list of the node with this id
DescendantsOf(nodes, id) == ReachWithin(nodes, ChildIdsOf(nodes, {id}), Len(nodes))

SubtreeOf(nodes, id) == {id} \cup DescendantsOf(nodes, id)

\* positions of the flat list that hold the id
PositionsOf(nodes, id) == { k \in 1..Len(nodes) : nodes[k]._id = id }

\* how many times the id occurs in the child lists of the flat list
ChildOccurrences(nodes, id) ==
    Cardinality({ <<k, c>> \in (1..Len(nodes)) \X (1..Len(nodes)) :
                    c <= Len(nodes[k].children) /\ nodes[k].children[c] = id })

\* C1: the flat node list places every element node strictly before every
\* node reachable from its child list, at any nesting depth.
C1_ParentBeforeDescendants ==
    \A i \in 1..Len(allNodes) :
        \A id \in DescendantsOf(allNodes, allNodes[i]._id) :
            /\ PositionsOf(allNodes, id) # {}
            /\ \A j \in PositionsOf(allNodes, id) : i < j

\* a compiled tree with three levels: a node, its child and its grandchild
C1_Witness ==
    /\ pc = "compiled"
    /\ \E i, j \in 1..Len(allNodes) :
        /\ allNodes[j]._id \in Range(allNodes[i].children)
        /\ allNodes[j].children # <<>>

\* C2: the compiled nodes form a forest - ids are pairwise distinct, each id
\* occurs in at most one child list and at most once in it, and rootNodeIds
\* is exactly the list of the nodes that occur in no child list.
C2_Forest ==
    pc = "compiled" =>
        /\ \A i, j \in 1..Len(allNodes) : allNodes[i]._id = allNodes[j]._id => i = j
        /\ \A id \in Ids(allNodes) : ChildOccurrences(allNodes, id) <= 1
        /\ LET parentless == SelectSeq(allNodes, LAMBDA n : ChildOccurrences(allNodes, n._id) = 0)
           IN  rootNodeIds = [k \in 1..Len(parentless) |-> parentless[k]._id]

\* a compiled tree with two roots and a node that has a parent
C2_Witness ==
    /\ pc = "compiled"
    /\ Len(rootNodeIds) >= 2
    /\ Len(allNodes) > Len(rootNodeIds)

\* ids of the nodes of chunk c
ChunkIds(c) == Ids(chunks[c].nodes)

\* the roots that chunk c holds, in root order
ChunkRoots(c) == SelectSeq(rootNodeIds, LAMBDA r : r \in ChunkIds(c))

\* C3: every chunk is a union of complete root subtrees (no parent is in a
\* different chunk from a descendant), and the chunks partition the input:
\* every input node is in exactly one chunk, exactly once.
C3_WholeSubtreesPartition ==
    pc = "split" =>
        /\ \A c \in 1..Len(chunks) :
            /\ ChunkIds(c) = UNION { SubtreeOf(allNodes, r) : r \in Range(ChunkRoots(c)) }
            /\ \A id \in ChunkIds(c) : DescendantsOf(allNodes, id) \subseteq ChunkIds(c)
        /\ \A i \in 1..Len(allNodes) :
            Cardinality({ <<c, k>> \in (1..Len(chunks)) \X (1..Len(allNodes)) :
                            /\ k <= Len(chunks[c].nodes)
                            /\ chunks[c].nodes[k]._id = allNodes[i]._id }) = 1
        /\ \A c \in 1..Len(chunks) : Ids(chunks[c].nodes) \subseteq Ids(allNodes)

\* a split into two or more chunks, one of which holds a parent and its child
C3_Witness ==
    /\ pc = "split"
    /\ Len(chunks) >= 2
    /\ \E c \in 1..Len(chunks) : \E k \in 1..Len(chunks[c].nodes) :
        chunks[c].nodes[k].children # <<>>

SubtreeSize(id) == Cardinality(SubtreeOf(allNodes, id))

\* C4: roots are accumulated greedily in root order - a chunk is closed
\* exactly when it is non-empty and the next root's whole subtree would make
\* it exceed maxNodesPerChunk; so a chunk of two or more roots has at most
\* maxNodesPerChunk nodes, and a root subtree larger than the limit is
\* emitted whole, alone in its own chunk.
C4_GreedyAccumulation ==
    pc = "split" =>
        \* the chunks take the roots in root order, none is empty
        /\ \A c \in 1..Len(chunks) : ChunkRoots(c) # <<>>
        /\ \A c, e \in 1..Len(chunks) : \A r \in Range(ChunkRoots(c)) : \A q \in Range(ChunkRoots(e)) :
              c < e => \E a, b \in 1..Len(rootNodeIds) :
                          a < b /\ rootNodeIds[a] = r /\ rootNodeIds[b] = q
        \* closed only when the next root would not fit
        /\ \A c \in 1..(Len(chunks) - 1) :
              chunks[c].nodeCount + SubtreeSize(ChunkRoots(c + 1)[1]) > maxNodesPerChunk
        \* not closed while the next root fits
        /\ \A c \in 1..Len(chunks) :
              Len(ChunkRoots(c)) >= 2 => chunks[c].nodeCount <= maxNodesPerChunk
        \* an oversized root is whole and alone
        /\ \A r \in Range(rootNodeIds) :
              SubtreeSize(r) > maxNodesPerChunk =>
                  \E c \in 1..Len(chunks) :
                      /\ ChunkRoots(c) = <<r>>
                      /\ ChunkIds(c) = SubtreeOf(allNodes, r)

\* a chunk of two roots was closed because the third root did not fit
C4_Witness ==
    /\ pc = "split"
    /\ Len(chunks) >= 2
    /\ \E c \in 1..Len(chunks) : Len(ChunkRoots(c)) >= 2

\* the table entry of the root of a single-root chunk
RootHasLabel(c) ==
    /\ Len(ChunkRoots(c)) = 1
    /\ allNodes[FindNode(allNodes, ChunkRoots(c)[1])].tag \in DOMAIN labelMap

RootLabel(c) == labelMap[allNodes[FindNode(allNodes, ChunkRoots(c)[1])].tag]

PositionalLabel(c) == IF Len(chunks) = 1 THEN "Complete Page" ELSE ChunkN(c)

----------------------------------------------------------------------------
(* Properties of the style compiler *)

\* the selector is exactly .name, or .name followed by a space, a colon or
\* a dot (a token that begins with a dot)
SelectsClass(selector, name) ==
    \/ selector = <<DotOf(name)>>
    \/ /\ Len(selector) >= 2
       /\ selector[1] = DotOf(name)
       /\ selector[2] \in {" ", ":"} \cup { DotOf(n) : n \in ClassNameUniverse }

\* the style sheet has a rule for the class, at top level or in a media block
HasRule(name) ==
    \E k \in 1..Len(cssItems) :
        /\ cssItems[k].kind \in {"rule", "media"}
        /\ SelectsClass(cssItems[k].selector, name)

\* the style sheet consists of CSS blocks only
WellFormed == \A k \in 1..Len(cssItems) : cssItems[k].kind # "stray"

\* C6: a requested class name that has no matching CSS rule still gets a
\* style record, with an empty declaration string, from either entry point;
\* handling such a class raises no error.
C6_UnmatchedClassEmptyRecord ==
    /\ cssPc \in {"classes", "returned", "thrown"} =>
          \A i \in 1..(classIdx - 1) :
              ~HasRule(classNames[i]) =>
                  /\ i <= Len(styles)
                  /\ styles[i].name = classNames[i]
                  /\ styles[i].styleLess = <<>>
                  /\ DOMAIN styles[i].variants = {}
    /\ cssPc = "thrown" => HasRule(classNames[classIdx])
    /\ cssPc = "returned" => classIdx = Len(classNames) + 1

\* a returned result with a record for a matched and for an unmatched class
C6_Witness ==
    /\ cssPc = "returned"
    /\ \E i, j \in 1..Len(styles) :
        /\ ~HasRule(classNames[i]) /\ styles[i].styleLess = <<>>
        /\ HasRule(classNames[j]) /\ styles[j].styleLess # <<>>

\* C7 as stated: for any list of requested class names the result has exactly
\* one style record per requested name, and classToIdMap is a bijection
\* between the names and the records.
C7_AsStated ==
    cssPc = "returned" =>
        /\ \A name \in Range(classNames) :
              Cardinality({ k \in 1..Len(styles) : styles[k].name = name }) = 1
        /\ DOMAIN classToIdMap = Range(classNames)
        /\ \A k \in 1..Len(styles) : classToIdMap[styles[k].name] = styles[k]._id
        /\ \A m, n \in DOMAIN classToIdMap : classToIdMap[m] = classToIdMap[n] => m = n

\* position of the first top-level rule of the style sheet that selects the class
FirstRuleFor(name) ==
    IF \E k \in 1..Len(cssItems) :
            cssItems[k].kind = "rule" /\ SelectsClass(cssItems[k].selector, name)
    THEN CHOOSE k \in 1..Len(cssItems) :
            /\ cssItems[k].kind = "rule" /\ SelectsClass(cssItems[k].selector, name)
            /\ \A j \in 1..(k - 1) :
                  ~(cssItems[j].kind = "rule" /\ SelectsClass(cssItems[j].selector, name))
    ELSE 0

\* the declaration string of a block of the style sheet
DeclarationString(block) ==
    convertToStyleLess(ResolveAll(SplitProperties(Trim(block.declarations)), cssVariables))

\* C8 as stated: for each requested class name the declarations used are
\* those of the first rule, in textual order of the CSS, whose selector
\* selects the class; the declaration string is empty if the CSS has no such rule.
C8_AsStated ==
    (cssPc = "returned" /\ WellFormed) =>
        \A i \in 1..Len(classNames) :
            LET first == FirstRuleFor(classNames[i])
            IN  /\ first # 0 => styles[i].styleLess = DeclarationString(cssItems[first])
                /\ ~HasRule(classNames[i]) => styles[i].styleLess = <<>>

\* a var( reference to a custom property of the :root table is left in s
LeavesDefinedReference(s) ==
    \E k \in 1..(Len(s) - 1) :
        /\ s[k] = "var("
        /\ SkipWs(s, k + 1) <= Len(s)
        /\ s[SkipWs(s, k + 1)] \in DOMAIN cssVariables

\* C9 as stated: every var(--name) of a matched declaration is replaced by
\* the value of --name from the :root table (recursively); in particular
\* :root { --c: red; } with .a { color: var(--c); } resolves to "color: red".
C9_AsStated ==
    cssPc = "returned" =>
        /\ \A k \in 1..Len(styles) : ~LeavesDefinedReference(styles[k].styleLess)
        /\ ( /\ cssItems = <<RootBlock(Decl("--c", <<"red">>)),
                             RuleBlock(<<".a">>, Decl("color", <<"var(", "--c", ")">>))>>
             /\ classNames = <<"a">> )
           => styles[1].styleLess = <<"color", ":", " ", "red">>

\* C10 as stated: the style compiler never raises, whatever the CSS text
\* and the pattern of references among the :root variables.
C10_AsStated == cssPc # "thrown"


\* the breakpoint tier conventionally associated with a max-width
TierOf(width) ==
    CASE width = "479px" -> "tiny"
      [] width = "767px" -> "small"
      [] width = "991px" -> "medium"
      [] OTHER -> "none"

\* the max-width of a media block of the style sheet
WidthOf(block) ==
    LET k == IndexOf(block.text, "max-width", 1) IN block.text[k + 3]

\* C11 as stated: for a class that has a rule inside @media (max-width: 767px)
\* (479px, 991px), parseCSSWithMediaQueries produces a variant keyed by the
\* tier "small" ("tiny", "medium") holding that rule's declarations, and the
\* base declaration string comes only from the non-media rule for the class.
C11_AsStated ==
    (cssPc = "returned" /\ cssMode = "media") =>
        \A i \in 1..Len(classNames) :
            /\ \A k \in 1..Len(cssItems) :
                  ( /\ cssItems[k].kind = "media"
                    /\ cssItems[k].selector = <<DotOf(classNames[i])>>
                    /\ TierOf(WidthOf(cssItems[k])) # "none"
                    \* the only media block of the style sheet for its tier
                    /\ \A j \in 1..Len(cssItems) :
                          (cssItems[j].kind = "media" /\ j # k)
                              => TierOf(WidthOf(cssItems[j])) # TierOf(WidthOf(cssItems[k])) )
                  => /\ TierOf(WidthOf(cssItems[k])) \in DOMAIN styles[i].variants
                     /\ styles[i].variants[TierOf(WidthOf(cssItems[k]))]
                            = DeclarationString(cssItems[k])
            /\ FirstRuleFor(classNames[i]) = 0 => styles[i].styleLess = <<>>


----------------------------------------------------------------------------
(* Properties of the element records.  Every element record is pushed by    *)
(* the processElement call that is on the stack right after the push, so a  *)
(* property of the record and its source element is stated on the stack.    *)

FormControlTags == {"input", "textarea", "select", "label"}

FormControlTypes ==
    {"FormButton", "FormTextInput", "FormTextarea", "FormSelect", "FormBlockLabel",
     "FormRadioInput", "FormCheckboxInput"}

\* the element has a form element among its ancestors, at any depth
HasFormAncestor(d, i) ==
    \E a \in AncestorsOrSelf(d, d[i].parent) \ {0} : d[a].name = "form"

VerbatimAttributes(element) ==
    LET kept == SelectSeq(element.attribs, LAMBDA a : a[1] \notin {"class", "id"})
    IN  [k \in 1..Len(kept) |-> [name |-> kept[k][1], value |-> kept[k][2]]]

\* the same with an empty value written as one space
SpacedAttributes(element) ==
    LET kept == SelectSeq(element.attribs, LAMBDA a : a[1] \notin {"class", "id"})
    IN  [k \in 1..Len(kept) |->
            [name |-> kept[k][1],
             value |-> IF kept[k][2] = <<>> THEN <<" ">> ELSE kept[k][2]]]

InTagTable(tag) == tag \in DOMAIN TAG_TO_TYPE_MAP

RECURSIVE WordsOf(_)
WordsOf(value) ==
    IF value = <<>> THEN <<>>
    ELSE IF IsWs(Head(value)) THEN WordsOf(Tail(value))
    ELSE <<Head(value)>> \o WordsOf(Tail(value))

ClassWords(element) ==
    IF HasAttr(element, "class") THEN WordsOf(Attr(element, "class")) ELSE <<>>

\* the ids of the words the map knows, in the order of the words
RECURSIVE MatchedIds(_, _)
MatchedIds(words, map) ==
    IF words = <<>> THEN <<>>
    ELSE IF Head(words) \in DOMAIN map
    THEN <<map[Head(words)]>> \o MatchedIds(Tail(words), map)
    ELSE MatchedIds(Tail(words), map)

\* C14: for every element the style-id list is the class attribute split on
\* white space and mapped through classToIdMap - matched ids in the original
\* class order, classes missing from the map contributing nothing - and the
\* element node is created however many classes are unmatched.
C14_ClassMapping ==
    \A k \in 1..Len(stack) :
        LET el == dom[stack[k].el]
        IN  /\ stack[k].node \in 1..Len(allNodes)
            /\ allNodes[stack[k].node]._id = stack[k].id
            /\ ~allNodes[stack[k].node].text
            /\ allNodes[stack[k].node].classes = MatchedIds(ClassWords(el), classToIdMap)

\* an element whose classes are all unmatched holds an element with two
\* matched classes around an unmatched one
C14_Witness ==
    \E j, k \in 1..Len(stack) :
        /\ ClassWords(dom[stack[j].el]) = <<"x">>
        /\ allNodes[stack[j].node].classes = <<>>
        /\ ClassWords(dom[stack[k].el]) = <<"d", "x", "c">>
        /\ allNodes[stack[k].node].classes = <<"T", "S">>


\* the text consists of white space only (the empty text included)
WhitespaceOnly(data) == \A k \in 1..Len(data) : IsWs(data[k])

\* the element has content, and all of it is white-space text
OnlyWhitespaceContent(d, i) ==
    /\ Children(d, i) # <<>>
    /\ \A c \in Range(Children(d, i)) : d[c].kind = "text" /\ WhitespaceOnly(d[c].data)

\* C15: white-space-only text never produces a text node - every text node
\* has content that is non-empty and equal to its own trimmed form, and an
\* element whose only content is white space is emitted with an empty child
\* list.
C15_NoWhitespaceText ==
    /\ \A i \in 1..Len(allNodes) :
          allNodes[i].text =>
              /\ allNodes[i].v # <<>>
              /\ ~IsWs(Head(allNodes[i].v)) /\ ~IsWs(Last(allNodes[i].v))
              /\ ~WhitespaceOnly(allNodes[i].v)
    /\ \A k \in 1..Len(stack) :
          OnlyWhitespaceContent(dom, stack[k].el) =>
              /\ stack[k].childIds = <<>>
              /\ allNodes[stack[k].node].children = <<>>
              /\ stack[k].todo = <<>> => Last(allNodes)._id = stack[k].id
    /\ pc = "compiled" =>
          Cardinality({ i \in 1..Len(allNodes) : allNodes[i].text })
              <= Cardinality({ i \in 1..Len(dom) :
                                 dom[i].kind = "text" /\ ~WhitespaceOnly(dom[i].data) })

\* the white-space text of a nested element has been visited and the
\* element is about to return without a child
C15_Witness ==
    \E k \in 2..Len(stack) :
        /\ OnlyWhitespaceContent(dom, stack[k].el)
        /\ stack[k].todo = <<>>
        /\ stack[k].childIds = <<>>
        /\ Last(allNodes)._id = stack[k].id


\* the document of <div class="c"><p>Hello</p></div>
ExampleDom ==
    << [kind |-> "element", name |-> "div", attribs |-> ClassAttrC, data |-> <<>>, parent |-> 0],
       [kind |-> "element", name |-> "p", attribs |-> <<>>, data |-> <<>>, parent |-> 1],
       [kind |-> "text", name |-> "", attribs |-> <<>>, data |-> <<"Hello">>, parent |-> 2] >>

\* a Block element carrying style id S with one child, that child a Paragraph
\* element whose own child is a single text node with the value "Hello"
ExampleShape ==
    \E b, q, t \in 1..Len(allNodes) :
        /\ ~allNodes[b].text /\ allNodes[b].type = "Block"
        /\ allNodes[b].classes = <<"S">>
        /\ allNodes[b].children = <<allNodes[q]._id>>
        /\ ~allNodes[q].text /\ allNodes[q].type = "Paragraph"
        /\ allNodes[q].children = <<allNodes[t]._id>>
        /\ allNodes[t].text /\ allNodes[t].v = <<"Hello">>
        /\ rootNodeIds = <<allNodes[b]._id>>

\* C16 as stated: compiling <div class="c"><p>Hello</p></div> with c mapped
\* to S yields exactly 2 nodes - a Block element carrying S with one child and
\* a Paragraph element whose own child is a single text node "Hello".
C16_AsStated ==
    (pc = "compiled" /\ dom = ExampleDom /\ classToIdMap = [c \in {"c"} |-> "S"]) =>
        /\ Len(allNodes) = 2
        /\ ExampleShape

\* C16 (amended): the same compilation yields exactly 3 nodes in the flat
\* list - the Block element carrying S with one child, the Paragraph element
\* whose only child is a text node, and that text node with the value "Hello".
C16_Example ==
    (pc = "compiled" /\ dom = ExampleDom /\ classToIdMap = [c \in {"c"} |-> "S"]) =>
        /\ Len(allNodes) = 3
        /\ ExampleShape

\* the example has been compiled
C16_Witness ==
    /\ pc = "compiled"
    /\ dom = ExampleDom
    /\ classToIdMap = [c \in {"c"} |-> "S"]
    /\ Len(allNodes) = 3


\* the document has a body element
HasBody(d) == \E i \in 1..Len(d) : d[i].kind = "element" /\ d[i].name = "body"

\* the direct element children of a body element other than script and style
BodyChildren(d) ==
    SelectSeq([i \in 1..Len(d) |-> i],
              LAMBDA i : /\ d[i].kind = "element"
                         /\ d[i].name \notin {"script", "style"}
                         /\ d[i].parent # 0
                         /\ d[d[i].parent].kind = "element"
                         /\ d[d[i].parent].name = "body")

\* C17 as stated: when the HTML contains a body element, the roots of the
\* compiled tree are exactly body's direct element children other than
\* script and style, in document order - no element outside body and no
\* deeper descendant of body becomes a root.
C17_AsStated ==
    HasBody(dom) =>
        /\ pc = "compiling" => \A k \in 1..Len(contentElements) :
                                  contentElements[k] \in Range(BodyChildren(dom))
        /\ stack # <<>> => stack[1].el \in Range(BodyChildren(dom))
        /\ pc = "compiled" => Len(rootNodeIds) = Len(BodyChildren(dom))


\* the types of the Form family the compiler gives to elements
FormFamily == FormControlTypes \cup {"FormForm"}

HasField(data, field) == field \in DOMAIN data

ClassNamesPresent(d) ==
    UNION { Range(ClassWords(d[i])) : i \in { j \in 1..Len(d) : d[j].kind = "element" } }

\* C19: compileHTMLWithStyles assigns exactly one fresh style id to each
\* distinct class name present in the HTML, and every element carrying the
\* class references that same id in its style-id list.
C19_OneIdPerClass ==
    pc # "html" =>
        /\ DOMAIN classToIdMap = ClassNamesPresent(dom)
        /\ \A m, n \in DOMAIN classToIdMap : classToIdMap[m] = classToIdMap[n] => m = n
        /\ \A n \in DOMAIN classToIdMap : \A i \in 1..Len(allNodes) :
              allNodes[i]._id # classToIdMap[n]
        /\ \A k \in 1..Len(stack) :
              LET words == ClassWords(dom[stack[k].el])
                  classes == allNodes[stack[k].node].classes
              IN  /\ Len(classes) = Len(words)
                  /\ \A w \in 1..Len(words) : classes[w] = classToIdMap[words[w]]

\* an element carrying a class is being compiled inside another element
\* that carries the same class, and the document has a second class
C19_Witness ==
    /\ pc = "compiling"
    /\ Cardinality(DOMAIN classToIdMap) >= 2
    /\ \E j, k \in 1..Len(stack) :
          /\ j < k
          /\ \E n \in DOMAIN classToIdMap :
                /\ classToIdMap[n] \in Range(allNodes[stack[j].node].classes)
                /\ classToIdMap[n] \in Range(allNodes[stack[k].node].classes)


\* C23: a record is appended to the flat list with an empty child list; an
\* element's record changes only once, at the return of its processElement
\* call, when every child has been visited and all its descendants are in
\* the list, and only in its child list; no record changes otherwise, and a
\* text node never changes.
Returning(i) ==
    /\ stack # <<>>
    /\ Last(stack).node = i
    /\ Last(stack).todo = <<>>
    /\ Len(stack') = Len(stack) - 1

C23_ChildListLifecycle ==
    [][/\ Len(allNodes') >= Len(allNodes)
       /\ \A i \in Len(allNodes) + 1 .. Len(allNodes') : allNodes'[i].children = <<>>
       /\ Len(stack') > Len(stack) => Last(stack').node = Len(allNodes') /\ Len(allNodes') > Len(allNodes)
       /\ \A i \in DOMAIN allNodes :
              allNodes'[i] # allNodes[i] =>
                  /\ Returning(i)
                  /\ ~allNodes[i].text
                  /\ allNodes[i].children = <<>>
                  /\ allNodes' = [allNodes EXCEPT ![i].children = Last(stack).childIds]
                  /\ Range(allNodes'[i].children) \subseteq Ids(allNodes)
                  /\ DescendantsOf(allNodes', allNodes[i]._id) \subseteq Ids(allNodes)]_vars

\* the child list of a nested element has been assigned while the record of
\* its parent, whose call is still active, has its child list empty
C23_Witness ==
    /\ stack # <<>>
    /\ Last(stack).childIds # <<>>
    /\ allNodes[Last(stack).node].children = <<>>
    /\ \E i \in DOMAIN allNodes :
          /\ ~allNodes[i].text
          /\ allNodes[i].children # <<>>
          /\ allNodes[i]._id \in Range(Last(stack).childIds)
    /\ \E i \in DOMAIN allNodes : allNodes[i].text

\* The nodes of the document that yield a record: the nodes of the subtrees
\* of the content elements, but for the text nodes that are blank.  The flat
\* list holds the records in document order, so the k-th record belongs to
\* the k-th of these nodes.
InContent(d, i) ==
    \E r \in Range(extractContentElements(d)) : r \in AncestorsOrSelf(d, i)

Retained(d) ==
    SelectSeq([i \in 1 .. Len(d) |-> i],
              LAMBDA i : /\ InContent(d, i)
                         /\ d[i].kind = "text" => Trim(d[i].data) # <<>>)

PositionIn(s, x) == CHOOSE k \in 1 .. Len(s) : s[k] = x

\* C24: after compilation the child-id list of every element is the sequence
\* of the ids of its child elements and of its non-blank child text nodes,
\* in document order, elements and texts interleaved as in the source.
C24_ChildIdLists ==
    pc = "compiled" =>
        LET R == Retained(dom)
        IN  /\ Len(allNodes) = Len(R)
            /\ \A k \in 1 .. Len(R) :
                  IF dom[R[k]].kind = "text"
                  THEN /\ allNodes[k].text
                       /\ allNodes[k].v = Trim(dom[R[k]].data)
                       /\ allNodes[k].children = <<>>
                  ELSE LET kept == SelectSeq(Children(dom, R[k]), LAMBDA c : c \in Range(R))
                       IN  /\ ~allNodes[k].text
                           /\ allNodes[k].children =
                                 [j \in 1 .. Len(kept) |-> allNodes[PositionIn(R, kept[j])]._id]

\* a compiled element whose child list interleaves a text node and an
\* element
C24_Witness ==
    /\ pc = "compiled"
    /\ \E k \in DOMAIN allNodes :
          /\ ~allNodes[k].text
          /\ Len(allNodes[k].children) = 2
          /\ \E i, j \in DOMAIN allNodes :
                /\ allNodes[i]._id = allNodes[k].children[1]
                /\ allNodes[j]._id = allNodes[k].children[2]
                /\ allNodes[i].text # allNodes[j].text

\* the keyword of the type attribute of an input element; the attribute is
\* case-insensitive, and a missing or empty one means text
InputTypeKeyword(element) ==
    IF HasAttr(element, "type") /\ Attr(element, "type") # <<>>
    THEN toLowerCase(Attr(element, "type"))
    ELSE <<"text">>

\* C25: an input element inside a form is typed by its type attribute:
\* submit or button gives FormButton, radio gives FormRadioInput, checkbox
\* gives FormCheckboxInput, every other or missing type gives FormTextInput.
C25_InputSubType ==
    \A k \in 1 .. Len(stack) :
        LET element == dom[stack[k].el]
            node == allNodes[stack[k].node]
            keyword == InputTypeKeyword(element)
        IN  (element.name = "input" /\ HasFormAncestor(dom, stack[k].el)) =>
                node.type = CASE keyword \in {<<"submit">>, <<"button">>} -> "FormButton"
                              [] keyword = <<"radio">> -> "FormRadioInput"
                              [] keyword = <<"checkbox">> -> "FormCheckboxInput"
                              [] OTHER -> "FormTextInput"

\* an input of type button is compiled inside a form
C25_Witness ==
    \E k \in 1 .. Len(stack) :
        /\ dom[stack[k].el].name = "input"
        /\ HasFormAncestor(dom, stack[k].el)
        /\ HasAttr(dom[stack[k].el], "type")
        /\ Attr(dom[stack[k].el], "type") = <<"button">>
        /\ allNodes[stack[k].node].type = "FormButton"

\* C27 as stated: the attribute bag that extractAttributes builds for an
\* input element inside a form has the shape of the type getWebflowType
\* chose: FormButton carries value and data-wait, FormRadioInput and
\* FormCheckboxInput carry value and checked, FormTextInput carries
\* maxlength, for every spelling and letter case of the type attribute.
C27_AsStated ==
    \A k \in 1 .. Len(stack) :
        LET element == dom[stack[k].el]
            node == allNodes[stack[k].node]
            attr == node.data.attr
        IN  (element.name = "input" /\ HasFormAncestor(dom, stack[k].el)) =>
                /\ node.type = "FormButton" =>
                      HasField(attr, "value") /\ HasField(attr, "data-wait")
                /\ node.type \in {"FormRadioInput", "FormCheckboxInput"} =>
                      HasField(attr, "value") /\ HasField(attr, "checked")
                /\ node.type = "FormTextInput" => HasField(attr, "maxlength")

\* the node lists of the chunks c .. Len(chunks), one after the other
RECURSIVE ChunksFrom(_)
ChunksFrom(c) ==
    IF c > Len(chunks) THEN <<>> ELSE chunks[c].nodes \o ChunksFrom(c + 1)

RECURSIVE RootsFrom(_)
RootsFrom(c) ==
    IF c > Len(chunks) THEN <<>> ELSE ChunkRoots(c) \o RootsFrom(c + 1)

\* C26: for a compiled tree, the node lists of the chunks, concatenated in
\* chunk order, are the input flat list; the chunks follow the order of the
\* roots, none is empty, and nodeCount is the length of the node list.
C26_ChunksConcatenate ==
    pc = "split" =>
        /\ ChunksFrom(1) = allNodes
        /\ RootsFrom(1) = rootNodeIds
        /\ \A c \in 1 .. Len(chunks) :
              /\ chunks[c].nodes # <<>>
              /\ chunks[c].nodeCount = Len(chunks[c].nodes)
              /\ ChunkRoots(c) # <<>>
              /\ chunks[c].nodes[1]._id = ChunkRoots(c)[1]

\* a split into several chunks, the second of which starts inside the flat
\* list with a root that has a child
C26_Witness ==
    /\ pc = "split"
    /\ Len(chunks) >= 2
    /\ chunks[2].nodeCount >= 2
    /\ chunks[2].nodes[1].children # <<>>
    /\ chunks[2].nodes[1] = allNodes[Len(chunks[1].nodes) + 1]

\* C28 as stated: no element record derives from a document-structure
\* element (script, style, html, head, body, title, meta, link, base), at
\* any nesting depth, with or without a body element.
C28_AsStated ==
    \A k \in 1 .. Len(stack) : dom[stack[k].el].name \notin DOCUMENT_STRUCTURE_TAGS

----------------------------------------------------------------------------
(* Properties of the clipboard transport *)

\* C20 as stated: a successful copyToWebflow writes the serialized data to
\* the clipboard under both the text/plain and the application/json MIME
\* types.
C20_AsStated ==
    (copyPc = "returned" /\ copyResult.success) =>
        /\ "text/plain" \in DOMAIN clipboard
        /\ clipboard["text/plain"] = Stringify(webflowData)
        /\ "application/json" \in DOMAIN clipboard
        /\ clipboard["application/json"] = Stringify(webflowData)

\* C21: copyToWebflowSmart runs the execCommand fallback only when the
\* modern API is unavailable or its attempt, made first, has returned a
\* failure; the fallback never runs after a successful modern write, the
\* modern attempt is made whenever the API is available, and the result is a
\* success exactly when one of the attempted methods succeeded.
ModernTried == copyPc # "idle"

ModernSucceeded == copyPc = "returned" /\ copyResult.success

FallbackRan == fallbackResult # NoResult

C21_ModernFirst ==
    /\ (smartPc # "idle" /\ ModernApiAvailable) => ModernTried
    /\ FallbackRan =>
          \/ ~ModernApiAvailable /\ ~ModernTried
          \/ copyPc = "returned" /\ ~copyResult.success
    /\ ModernSucceeded => ~FallbackRan
    /\ smartPc = "returned" =>
          (smartResult.success <=>
              (ModernSucceeded \/ (FallbackRan /\ fallbackResult.success)))

\* the modern attempt was rejected and the fallback then succeeded
C21_Witness ==
    /\ smartPc = "returned"
    /\ ModernApiAvailable
    /\ ModernTried
    /\ ~copyResult.success
    /\ FallbackRan
    /\ fallbackResult.success
    /\ smartResult.success

\* C30 as stated: for every outcome of execCommand, with the copy handler
\* having run or not, the promise of a call of copyToWebflowCustom is
\* eventually resolved and its listener and input are detached, it reports
\* success only if the handler wrote the data, and removeChild is called on
\* the input exactly once, never a second time.
CallsMade == 1 .. customCalls

SettledAndDetached(c) ==
    /\ promises[c].settled
    /\ c \notin copyListeners
    /\ c \notin tempInputs
    /\ removeAttempts[c] = 1

SuccessOnlyIfWritten(c) ==
    promises[c].success =>
        clipboard \in { DataTransferOf(customJson[k]) : k \in c .. customCalls }

C30_AsStated ==
    /\ [](\A c \in CallsMade : removeAttempts[c] <= 1 /\ SuccessOnlyIfWritten(c))
    /\ <>[](\A c \in CallsMade : SettledAndDetached(c))

----------------------------------------------------------------------------
(* Properties of the converter page *)

\* C22 as stated: whenever copyStatus has been driven to success or to
\* error, it eventually returns to idle without any further user action, on
\* every path of handleConvertAndCopy, the multi-chunk outcome included.
C22_AsStated == (copyStatus \in {"success", "error"}) ~> (copyStatus = "idle")

\* C29 as stated: a reset timer only clears the copyStatus and copyMessage
\* that its own run has set; a timer armed by one run never changes the
\* status or the message set by a later run.
C29_AsStated ==
    [][Len(timers') < Len(timers) =>
          \E i \in DOMAIN timers :
              /\ timers' = RemoveAt(timers, i)
              /\ timers[i].run = statusRun]_vars

====
